---- MODULE Spec2Model ----
(***************************************************************************)
(* Driver dispatch, retry/timeout policy and error normalisation of the    *)
(* adonis-ai package (drivers/base_driver.ts, drivers/openai/main.ts,      *)
(* drivers/gemini/main.ts, src/errors.ts), the streaming generator, and    *)
(* the managers AIManager and AiManager (src/ai_manager.ts).               *)
(*                                                                         *)
(* JavaScript strings are sequences of one-character strings, so that      *)
(* String.prototype.includes, trim and template literals are computed.     *)
(***************************************************************************)
EXTENDS Integers, Sequences, FiniteSets, TLC

(* ---- bounds of the model ---- *)
MaxRetriesBound == 5

MaxRegs == 3

RandSteps == 4

(* ---- JavaScript values: undefined, numbers and strings ---- *)
Undefined == [t |-> "undefined", n |-> 0, s |-> ""]

Num(n) == [t |-> "number", n |-> n, s |-> ""]

Str(s) == [t |-> "string", n |-> 0, s |-> s]

Truthy(v) == (v.t = "number" /\ v.n # 0) \/ (v.t = "string" /\ v.s # "")

Or(a, b) == IF Truthy(a) THEN a ELSE b

StrictEq(v, n) == v.t = "number" /\ v.n = n

(* ---- strings ---- *)
Includes(s, p) ==
  \E i \in 0..(Len(s) - Len(p)) : SubSeq(s, i + 1, i + Len(p)) = p

Whitespace == {" ", "\t", "\n"}

Blank(s) == \A i \in 1..Len(s) : s[i] \in Whitespace

Digits == <<"0", "1", "2", "3", "4", "5", "6", "7", "8", "9">>

RECURSIVE ToDigits(_)
ToDigits(n) ==
  IF n < 10 THEN <<Digits[n + 1]>>
  ELSE ToDigits(n \div 10) \o <<Digits[(n % 10) + 1]>>

UpperCase ==
  <<"A", "B", "C", "D", "E", "F", "G", "H", "I", "J", "K", "L", "M", "N", "O",
    "P", "Q", "R", "S", "T", "U", "V", "W", "X", "Y", "Z">>

LowerCase ==
  <<"a", "b", "c", "d", "e", "f", "g", "h", "i", "j", "k", "l", "m", "n", "o",
    "p", "q", "r", "s", "t", "u", "v", "w", "x", "y", "z">>

(* String.prototype.toLowerCase *)
ToLowerCase(s) ==
  [i \in 1..Len(s) |->
     IF \E j \in 1..26 : UpperCase[j] = s[i]
       THEN LowerCase[CHOOSE j \in 1..26 : UpperCase[j] = s[i]]
       ELSE s[i]]

(* ---- src/errors.ts: the exception classes ---- *)
AIConfigurationException(message) ==
  [origin |-> "", cls |-> "AIConfigurationException",
   message |-> <<"I", "n", "v", "a", "l", "i", "d", " ", "A", "I", " ", "c", "o", "n", "f", "i", "g", "u", "r", "a", "t", "i", "o", "n", ":", " ">> \o message,
   code |-> Str("E_AI_CONFIGURATION_ERROR"), status |-> Num(500)]

AIApiKeyException401(provider) ==
  [origin |-> "", cls |-> "AIApiKeyException",
   message |-> <<"M", "i", "s", "s", "i", "n", "g", " ", "o", "r", " ", "i", "n", "v", "a", "l", "i", "d", " ", "A", "P", "I", " ", "k", "e", "y", " ", "f", "o", "r", " ">> \o provider \o <<" ", "p", "r", "o", "v", "i", "d", "e", "r">>,
   code |-> Str("E_AI_API_KEY_ERROR"), status |-> Num(401)]

AIApiKeyException(provider) ==
  [origin |-> "", cls |-> "AIApiKeyException",
   message |-> <<"M", "i", "s", "s", "i", "n", "g", " ", "o", "r", " ", "i", "n", "v", "a", "l", "i", "d", " ", "A", "P", "I", " ", "k", "e", "y", " ", "f", "o", "r", " ">> \o provider \o <<" ", "p", "r", "o", "v", "i", "d", "e", "r">>,
   code |-> Str("E_AI_API_KEY_ERROR"), status |-> Num(500)]

AIServiceException(provider, message, statusCode) ==
  [origin |-> "", cls |-> "AIServiceException",
   message |-> <<"A", "I", " ", "s", "e", "r", "v", "i", "c", "e", " ", "e", "r", "r", "o", "r", " ", "f", "r", "o", "m", " ">> \o provider \o <<":", " ">> \o message,
   code |-> Str("E_AI_SERVICE_ERROR"), status |-> Or(statusCode, Num(500))]

AITimeoutException(provider, timeout) ==
  [origin |-> "", cls |-> "AITimeoutException",
   message |-> <<"A", "I", " ", "r", "e", "q", "u", "e", "s", "t", " ", "t", "o", " ">> \o provider \o <<" ", "t", "i", "m", "e", "d", " ", "o", "u", "t", " ", "a", "f", "t", "e", "r", " ">>
               \o ToDigits(timeout) \o <<"m", "s">>,
   code |-> Str("E_AI_TIMEOUT"), status |-> Num(408)]

AIRateLimitException(provider) ==
  [origin |-> "", cls |-> "AIRateLimitException",
   message |-> <<"A", "I", " ", "r", "e", "q", "u", "e", "s", "t", " ", "t", "o", " ">> \o provider \o <<" ", "e", "x", "c", "e", "e", "d", "e", "d", " ", "r", "a", "t", "e", " ", "l", "i", "m", "i", "t", "s">>,
   code |-> Str("E_AI_RATE_LIMIT"), status |-> Num(429)]

(* `new X(...)` evaluated in the named function yields an object that is   *)
(* distinct from every object created elsewhere.                           *)
New(site, e) == [e EXCEPT !.origin = site]

(* An error raised by the provider SDK: message, status and code are       *)
(* whatever the transport put there.                                       *)
RawError(message, status, code) ==
  [origin |-> "remote", cls |-> "Error", message |-> message,
   code |-> code, status |-> status]

NoError ==
  [origin |-> "", cls |-> "", message |-> <<>>, code |-> Undefined,
   status |-> Undefined]

(* ---- drivers/base_driver.ts: error classification ---- *)
isAuthError(message, statusCode) ==
  \/ Includes(message, <<"a", "p", "i", " ", "k", "e", "y">>)
  \/ Includes(message, <<"A", "P", "I", "_", "K", "E", "Y">>)
  \/ Includes(message, <<"a", "u", "t", "h", "e", "n", "t", "i", "c", "a", "t", "i", "o", "n">>)
  \/ Includes(message, <<"4", "0", "1">>)
  \/ StrictEq(statusCode, 401)

isRateLimitErrorAnyCase(message, statusCode) ==
  \/ Includes(ToLowerCase(message), <<"r", "a", "t", "e", " ", "l", "i", "m", "i", "t">>)
  \/ Includes(message, <<"4", "2", "9">>)
  \/ StrictEq(statusCode, 429)

isRateLimitError(message, statusCode) ==
  \/ Includes(message, <<"r", "a", "t", "e", " ", "l", "i", "m", "i", "t">>)
  \/ Includes(message, <<"4", "2", "9">>)
  \/ StrictEq(statusCode, 429)

isTimeoutError(message, statusCode) ==
  \/ Includes(message, <<"t", "i", "m", "e", "o", "u", "t">>)
  \/ Includes(message, <<"4", "0", "8">>)
  \/ StrictEq(statusCode, 408)

isServiceError(message, statusCode) ==
  \/ Includes(message, <<"5", "0", "3">>)
  \/ Includes(message, <<"5", "0", "2">>)
  \/ Includes(message, <<"S", "E", "R", "V", "I", "C", "E", "_", "U", "N", "A", "V", "A", "I", "L", "A", "B", "L", "E">>)
  \/ StrictEq(statusCode, 503)
  \/ StrictEq(statusCode, 502)

HardCodedTimeout == 30000

(* The text the classification rules look at: error.message || 'Unknown…' *)
MessageOf(error) ==
  IF error.message # <<>> THEN error.message ELSE <<"U", "n", "k", "n", "o", "w", "n", " ", "e", "r", "r", "o", "r", " ", "o", "c", "c", "u", "r", "r", "e", "d">>

StatusCodeOfCodeFirst(error) == Or(error.code, error.status)

(* error.status || error.code *)
StatusCodeOf(error) == Or(error.status, error.code)

mapCommonErrorsRethrow(providerName, error) ==
  LET message == MessageOf(error)
      statusCode == StatusCodeOf(error)
  IN  IF isAuthError(message, statusCode)
        THEN New("mapCommonErrors", AIApiKeyException(providerName))
      ELSE IF isRateLimitError(message, statusCode)
        THEN New("mapCommonErrors", AIRateLimitException(providerName))
      ELSE IF isTimeoutError(message, statusCode)
        THEN New("mapCommonErrors",
                 AITimeoutException(providerName, HardCodedTimeout))
      ELSE IF isServiceError(message, statusCode)
        THEN New("mapCommonErrors",
                 AIServiceException(providerName,
                                    <<"S", "e", "r", "v", "i", "c", "e", " ", "t", "e", "m", "p", "o", "r", "a", "r", "i", "l", "y", " ", "u", "n", "a", "v", "a", "i", "l", "a", "b", "l", "e">>,
                                    Num(503)))
      ELSE error

(* mapCommonErrors never returns: the value is the exception it throws.    *)
mapCommonErrors(providerName, error) ==
  LET message == MessageOf(error)
      statusCode == StatusCodeOf(error)
  IN  IF isAuthError(message, statusCode)
        THEN New("mapCommonErrors", AIApiKeyException(providerName))
      ELSE IF isRateLimitError(message, statusCode)
        THEN New("mapCommonErrors", AIRateLimitException(providerName))
      ELSE IF isTimeoutError(message, statusCode)
        THEN New("mapCommonErrors",
                 AITimeoutException(providerName, HardCodedTimeout))
      ELSE IF isServiceError(message, statusCode)
        THEN New("mapCommonErrors",
                 AIServiceException(providerName,
                                    <<"S", "e", "r", "v", "i", "c", "e", " ", "t", "e", "m", "p", "o", "r", "a", "r", "i", "l", "y", " ", "u", "n", "a", "v", "a", "i", "l", "a", "b", "l", "e">>,
                                    Num(503)))
      ELSE New("mapCommonErrors",
               AIServiceException(providerName, message, Undefined))

(* ---- drivers/base_driver.ts: construction and helpers ---- *)
NotSet == -1

DefaultTimeout == 30000

DefaultMaxRetries == 3

(* constructor(providerName, timeout = 30000, maxRetries = 3) *)
TimeoutParam(t) == IF t = NotSet THEN DefaultTimeout ELSE t

MaxRetriesParam(r) == IF r = NotSet THEN DefaultMaxRetries ELSE r

(* Math.ceil(text.length / 4) *)
estimateTokens(text) == (Len(text) + 3) \div 4

RECURSIVE Pow2(_)
Pow2(n) == IF n = 0 THEN 1 ELSE 2 * Pow2(n - 1)

Min(a, b) == IF a < b THEN a ELSE b

(* Math.min(1000 * Math.pow(2, attempt), 10000) *)
BackoffBaseUncapped(attempt) == 1000 * Pow2(attempt)

BackoffBase(attempt) == Min(1000 * Pow2(attempt), 10000)

(* for (attempt = 0; attempt <= maxRetries; ...) { ... if (attempt ===     *)
(* maxRetries) break ... }: the attempt after which the loop ends          *)
LastAttemptOneMore(a, retries) == a = retries + 1

LastAttempt(a, retries) == a = retries

(* withTimeout: timeoutMs || this.timeout, drivers pass no timeoutMs *)
TimerLengthDefault(timeoutMs, driverTimeout) == DefaultTimeout

TimerLength(timeoutMs, driverTimeout) ==
  IF timeoutMs # 0 /\ timeoutMs # NotSet THEN timeoutMs ELSE driverTimeout

(* Math.random() * 1000, with Math.random() = r / RandSteps in [0, 1) *)
Jitter(r) == (r * 1000) \div RandSteps

(* withRetry's test for errors that end the loop at once *)
NoRetryInstanceOnly(error) == error.cls = "AIApiKeyException"

NoRetry(error) ==
  \/ error.cls = "AIApiKeyException"
  \/ StrictEq(error.status, 400)
  \/ StrictEq(error.status, 401)
  \/ StrictEq(error.status, 403)

(* ---- the environment: configurations, inputs and remote behaviour ---- *)
Providers == {<<"o", "p", "e", "n", "a", "i">>, <<"g", "e", "m", "i", "n", "i">>}

ConfigTimeouts == {NotSet, 5000}

ConfigMaxRetries == {NotSet} \cup (0..MaxRetriesBound)

Ops == {"generate", "chat", "embed"}

Msg(role, content) == [role |-> role, content |-> content]

(* the argument of embed: a string or an array of strings *)
StrArg(s) == [isArray |-> FALSE, str |-> s, arr |-> <<>>]

ArrArg(a) == [isArray |-> TRUE, str |-> <<>>, arr |-> a]

(* const texts = Array.isArray(text) ? text : [text] *)
Texts(text) == IF text.isArray THEN text.arr ELSE <<text.str>>

(* prompt of generate and stream / messages of chat / text of embed *)
Inputs(o) ==
  IF o \in {"generate", "stream"}
    THEN {<<Msg("user", <<>>)>>, <<Msg("user", <<" ">>)>>,
          <<Msg("user", <<" ", "\t", "\n">>)>>,
          <<Msg("user", <<"h", "e", "l", "l", "o">>)>>}
  ELSE IF o = "chat"
    THEN {<<>>, <<Msg("user", <<"h", "e", "l", "l", "o">>)>>,
          <<Msg("system", <<"b", "e", " ", "b", "r", "i", "e", "f">>), Msg("user", <<"h", "e", "l", "l", "o">>)>>,
          <<Msg("user", <<"h", "e", "l", "l", "o">>), Msg("assistant", <<" ">>)>>,
          <<Msg("user", <<>>), Msg("user", <<"h", "e", "l", "l", "o">>)>>}
  ELSE {ArrArg(<<>>), ArrArg(<<<<"a">>>>), ArrArg(<<<<"a">>, <<"b">>, <<"c">>>>),
        ArrArg(<<<<"a">>, <<>>>>), ArrArg(<<<<" ">>, <<"b">>>>),
        StrArg(<<"a">>), StrArg(<<" ">>), StrArg(<<>>)}

(* The embedding vector the provider computes for a text. *)
Embedding(t) ==
  <<Len(t), CHOOSE j \in 1..26 : LowerCase[j] = t[1]>>

RECURSIVE Embeddings(_)
Embeddings(texts) ==
  IF Len(texts) = 0 THEN <<>>
  ELSE <<Embedding(Head(texts))>> \o Embeddings(Tail(texts))

(* What the provider answers: text, token count, finish reason, and the    *)
(* embedding data of an embeddings request.                                *)
Responses ==
  {[text |-> <<"h", "i">>, total_tokens |-> 5, finish_reason |-> "completed",
    data |-> <<>>],
   [text |-> <<"h", "i">>, total_tokens |-> 5, finish_reason |-> "", data |-> <<>>],
   [text |-> <<>>, total_tokens |-> 0, finish_reason |-> "", data |-> <<>>]}

NoResponse ==
  [text |-> <<>>, total_tokens |-> 0, finish_reason |-> "", data |-> <<>>]

EmbedResponse(texts) ==
  [text |-> <<>>, total_tokens |-> Len(texts), finish_reason |-> "",
   data |-> Embeddings(texts)]

RemoteErrors ==
  {RawError(<<"U", "n", "a", "u", "t", "h", "o", "r", "i", "z", "e", "d">>, Num(401), Undefined),
   RawError(<<"B", "a", "d", " ", "R", "e", "q", "u", "e", "s", "t">>, Num(400), Undefined),
   RawError(<<"F", "o", "r", "b", "i", "d", "d", "e", "n">>, Num(403), Undefined),
   RawError(<<"T", "o", "o", " ", "M", "a", "n", "y", " ", "R", "e", "q", "u", "e", "s", "t", "s">>, Num(429), Undefined),
   RawError(<<"S", "e", "r", "v", "i", "c", "e", " ", "o", "v", "e", "r", "l", "o", "a", "d", "e", "d">>, Num(503), Undefined),
   RawError(<<"i", "n", "v", "a", "l", "i", "d", " ", "a", "p", "i", " ", "k", "e", "y">>, Undefined, Undefined),
   RawError(<<"s", "o", "c", "k", "e", "t", " ", "h", "a", "n", "g", " ", "u", "p">>, Undefined, Str("ECONNRESET"))}

(* One remote call: it resolves, rejects, or stays pending for ever. *)
Outcomes ==
  {[k |-> "resolve", resp |-> r, err |-> NoError] : r \in Responses}
  \cup {[k |-> "reject", resp |-> NoResponse, err |-> e] : e \in RemoteErrors}
  \cup {[k |-> "pending", resp |-> NoResponse, err |-> NoError]}

NoCall == [k |-> "none", resp |-> NoResponse, err |-> NoError]

(* Gemini's embed awaits Promise.all over one request per text. *)
MultiCall == [k |-> "multi", resp |-> NoResponse, err |-> NoError]

(* The remote behaviours of the call one attempt of a method issues. *)
OutcomesFor(provider, o, i) ==
  IF o # "embed" THEN Outcomes
  ELSE IF provider = <<"g", "e", "m", "i", "n", "i">> THEN {MultiCall}
  ELSE {[k |-> "resolve", resp |-> EmbedResponse(Texts(i)), err |-> NoError]}
       \cup {out \in Outcomes : out.k # "resolve"}

PendingItem == [st |-> "pending", vec |-> <<>>]

ItemErrors ==
  {RawError(<<"S", "e", "r", "v", "i", "c", "e", " ", "o", "v", "e", "r", "l", "o", "a", "d", "e", "d">>, Num(503), Undefined),
   RawError(<<"U", "n", "a", "u", "t", "h", "o", "r", "i", "z", "e", "d">>, Num(401), Undefined)}

(* A provider stream: the chunks still to come and how it ends. *)
ChunkScripts ==
  {<<<<"h", "e">>, <<>>, <<"l", "l", "o">>>>, <<<<"h", "i">>>>, <<>>}

StreamEndings == {NoError, RawError(<<"s", "o", "c", "k", "e", "t", " ", "h", "a", "n", "g", " ", "u", "p">>, Undefined, Undefined)}

NoStream == [open |-> FALSE, rest |-> <<>>, fail |-> NoError]

(* The request that opens a stream: it yields a stream, rejects or hangs. *)
StreamOutcomes ==
  {[k |-> "resolve", resp |-> NoResponse, err |-> NoError]}
  \cup {out \in Outcomes : out.k # "resolve"}

(* ---- state ---- *)
VARIABLES
  providerName,  \* BaseAIDriver.providerName
  timeout,       \* BaseAIDriver.timeout
  maxRetries,    \* BaseAIDriver.maxRetries
  op,            \* the driver method being executed
  input,         \* its argument
  pc,            \* "idle" | "racing" | "backoff" | "connecting" | "caught"
                 \* | "done" | "off"
  attempt,       \* withRetry's loop variable
  calls,         \* remote calls issued by this invocation
  waits,         \* backoff waits started by this invocation
  delay,         \* delay + jitter of the wait in progress
  timer,         \* length of the timer armed for the current attempt
  inflight,      \* behaviour of the remote call of the current attempt
  winner,        \* who settled the race of the current attempt
  lastError,     \* withRetry's lastError
  raised,        \* the error the method's catch block received
  result,        \* what the caller of the method receives
  items,         \* Gemini embed: the per-text requests of the current attempt
  arrivals,      \* Gemini embed: indices of the requests in completion order
  gen,           \* state of the generator returned by processStream
  src,           \* the provider stream the generator iterates
  consumer,      \* the for-await loop of the caller over result.stream
  fragments,     \* the fragments the consumer received
  iterError,     \* the error the consumer's iteration ended with
  abandoned      \* remote calls still in flight whose attempt timed out

callVars == <<op, input, pc, attempt, calls, waits, delay, timer, inflight,
              winner, lastError, raised, result>>

driverFields == <<providerName, timeout, maxRetries>>

embedVars == <<items, arrivals>>

streamVars == <<gen, src, consumer, fragments, iterError>>

NoValue ==
  [text |-> <<>>, tokens |-> 0, finishReason |-> "", messages |-> <<>>,
   embeddings |-> <<>>]

Pending == [st |-> "pending", value |-> NoValue, error |-> NoError]

Returned(v) == [st |-> "returned", value |-> v, error |-> NoError]

Thrown(e) == [st |-> "thrown", value |-> NoValue, error |-> e]

(* ---- state of the managers (src/ai_manager.ts) ---- *)
VARIABLES
  config,        \* this.config: the default name and, for AiManager, the disks
  drivers,       \* this.drivers: a Map, its entries in insertion order
  registrations, \* the registerDriver calls made so far, oldest first
  mcall,         \* the manager method called last and its argument
  mpc,           \* "off" | "config" | "failed" | "idle" | "probing" | "done"
  mresult,       \* what the caller of the manager method receives
  results,       \* testProviders: the local variable results
  probes,        \* testProviders: what happened to each provider probed
  instances,     \* the driver objects created, by their number
  ai,            \* the Ai / AiService object: its class and currentProvider
  callers        \* the callers of the Ai / AiService object

mgrVars == <<config, drivers, registrations, mcall, mpc, mresult, results,
             probes, instances, ai, callers>>

NoConfig == [default |-> <<>>, disks |-> <<>>]

NoMethod == [method |-> "", given |-> FALSE, name |-> <<>>]

NoResult == [st |-> "none", driver |-> 0, error |-> NoError, map |-> <<>>]

Omitted == [given |-> FALSE, name |-> <<>>]

Given(n) == [given |-> TRUE, name |-> n]

(* no Ai / AiService object takes part in the behaviour *)
AiOff == ai = [cls |-> "", currentProvider |-> Omitted] /\ callers = <<>>

(* no manager takes part in a behaviour of a driver *)
ManagerOff ==
  /\ config = NoConfig /\ drivers = <<>> /\ registrations = <<>>
  /\ mcall = NoMethod /\ mpc = "off" /\ mresult = NoResult
  /\ results = <<>> /\ probes = <<>> /\ instances = <<>>
  /\ AiOff

vars == <<providerName, timeout, maxRetries, op, input, pc, attempt, calls,
          waits, delay, timer, inflight, winner, lastError, raised, result,
          items, arrivals, gen, src, consumer, fragments, iterError,
          abandoned, config, drivers, registrations, mcall, mpc, mresult, results,
          probes, instances, ai, callers>>

(* new OpenAIDriver(config) / new GeminiDriver(config) *)
Init ==
  /\ providerName \in Providers
  /\ \E t \in ConfigTimeouts : timeout = TimeoutParam(t)
  /\ \E r \in ConfigMaxRetries : maxRetries = MaxRetriesParam(r)
  /\ op = "" /\ input = <<>> /\ pc = "idle"
  /\ attempt = 0 /\ calls = 0 /\ waits = 0 /\ delay = 0 /\ timer = 0
  /\ inflight = NoCall /\ winner = "none"
  /\ lastError = NoError /\ raised = NoError /\ result = Pending
  /\ items = <<>> /\ arrivals = <<>>
  /\ gen = "none" /\ src = NoStream /\ consumer = "none"
  /\ fragments = <<>> /\ iterError = NoError
  /\ abandoned = 0
  /\ ManagerOff

(* no driver call takes part in a behaviour of a manager *)
DriverOff ==
  /\ providerName = <<"o", "p", "e", "n", "a", "i">>
  /\ timeout = DefaultTimeout /\ maxRetries = DefaultMaxRetries
  /\ op = "" /\ input = <<>> /\ pc = "off"
  /\ attempt = 0 /\ calls = 0 /\ waits = 0 /\ delay = 0 /\ timer = 0
  /\ inflight = NoCall /\ winner = "none"
  /\ lastError = NoError /\ raised = NoError /\ result = Pending
  /\ items = <<>> /\ arrivals = <<>>
  /\ gen = "none" /\ src = NoStream /\ consumer = "none"
  /\ fragments = <<>> /\ iterError = NoError
  /\ abandoned = 0

(* ---- drivers/*/main.ts: input validation ---- *)
ValidationErrorNoTrim(o, i) ==
  IF o \in {"generate", "stream"}
    THEN IF i[1].content = <<>> THEN <<"P", "r", "o", "m", "p", "t", " ", "c", "a", "n", "n", "o", "t", " ", "b", "e", " ", "e", "m", "p", "t", "y">> ELSE <<>>
  ELSE IF o = "chat"
    THEN IF Len(i) = 0 THEN <<"M", "e", "s", "s", "a", "g", "e", "s", " ", "a", "r", "r", "a", "y", " ", "c", "a", "n", "n", "o", "t", " ", "b", "e", " ", "e", "m", "p", "t", "y">>
         ELSE IF \E j \in 1..Len(i) : i[j].content = <<>>
                THEN <<"M", "e", "s", "s", "a", "g", "e", " ", "c", "o", "n", "t", "e", "n", "t", " ", "c", "a", "n", "n", "o", "t", " ", "b", "e", " ", "e", "m", "p", "t", "y">> ELSE <<>>
  ELSE IF Len(Texts(i)) = 0 THEN <<"T", "e", "x", "t", " ", "a", "r", "r", "a", "y", " ", "c", "a", "n", "n", "o", "t", " ", "b", "e", " ", "e", "m", "p", "t", "y">>
       ELSE IF \E j \in 1..Len(Texts(i)) : Texts(i)[j] = <<>>
              THEN <<"T", "e", "x", "t", " ", "c", "o", "n", "t", "e", "n", "t", " ", "c", "a", "n", "n", "o", "t", " ", "b", "e", " ", "e", "m", "p", "t", "y">> ELSE <<>>

(* The message of the AIConfigurationException raised for the input, or    *)
(* the empty string when the input is accepted.                            *)
ValidationError(o, i) ==
  IF o \in {"generate", "stream"}
    THEN IF Blank(i[1].content) THEN <<"P", "r", "o", "m", "p", "t", " ", "c", "a", "n", "n", "o", "t", " ", "b", "e", " ", "e", "m", "p", "t", "y">> ELSE <<>>
  ELSE IF o = "chat"
    THEN IF Len(i) = 0 THEN <<"M", "e", "s", "s", "a", "g", "e", "s", " ", "a", "r", "r", "a", "y", " ", "c", "a", "n", "n", "o", "t", " ", "b", "e", " ", "e", "m", "p", "t", "y">>
         ELSE IF \E j \in 1..Len(i) : Blank(i[j].content)
                THEN <<"M", "e", "s", "s", "a", "g", "e", " ", "c", "o", "n", "t", "e", "n", "t", " ", "c", "a", "n", "n", "o", "t", " ", "b", "e", " ", "e", "m", "p", "t", "y">> ELSE <<>>
  ELSE IF Len(Texts(i)) = 0 THEN <<"T", "e", "x", "t", " ", "a", "r", "r", "a", "y", " ", "c", "a", "n", "n", "o", "t", " ", "b", "e", " ", "e", "m", "p", "t", "y">>
       ELSE IF \E j \in 1..Len(Texts(i)) : Blank(Texts(i)[j])
              THEN <<"T", "e", "x", "t", " ", "c", "o", "n", "t", "e", "n", "t", " ", "c", "a", "n", "n", "o", "t", " ", "b", "e", " ", "e", "m", "p", "t", "y">> ELSE <<>>

(* ---- drivers/*/main.ts: turning the provider's answer into a result ---- *)
NoResponseError(provider) ==
  [origin |-> "driver", cls |-> "Error",
   message |-> IF provider = <<"o", "p", "e", "n", "a", "i">>
                 THEN <<"N", "o", " ", "r", "e", "s", "p", "o", "n", "s", "e", " ", "g", "e", "n", "e", "r", "a", "t", "e", "d", " ", "f", "r", "o", "m", " ", "O", "p", "e", "n", "A", "I", " ", "A", "P", "I">>
                 ELSE <<"N", "o", " ", "r", "e", "s", "p", "o", "n", "s", "e", " ", "g", "e", "n", "e", "r", "a", "t", "e", "d", " ", "f", "r", "o", "m", " ", "G", "e", "m", "i", "n", "i", " ", "A", "P", "I">>,
   code |-> Undefined, status |-> Undefined]

RECURSIVE SumTokens(_)
SumTokens(texts) ==
  IF Len(texts) = 0 THEN 0
  ELSE estimateTokens(Head(texts)) + SumTokens(Tail(texts))

ChatMessagesPrepend(messages, text) == <<Msg("assistant", text)>> \o messages

(* [...messages, { role: 'assistant', content: text }] *)
ChatMessages(messages, text) == messages \o <<Msg("assistant", text)>>

ResponseValueBlank(provider, o, i, resp) == NoValue

ResponseValue(provider, o, i, resp) ==
  IF o = "embed"
    THEN [text |-> <<>>,
          tokens |-> IF provider = <<"o", "p", "e", "n", "a", "i">> THEN resp.total_tokens
                     ELSE SumTokens(Texts(i)),
          finishReason |-> "",
          messages |-> <<>>,
          embeddings |-> resp.data]
    ELSE [text |-> resp.text,
          tokens |-> IF provider = <<"o", "p", "e", "n", "a", "i">> THEN resp.total_tokens
                     ELSE estimateTokens(resp.text),
          finishReason |-> IF provider = <<"o", "p", "e", "n", "a", "i">>
                             THEN IF resp.finish_reason # ""
                                    THEN resp.finish_reason ELSE "unknown"
                             ELSE "completed",
          messages |-> IF o = "chat" THEN ChatMessages(i, resp.text)
                       ELSE <<>>,
          embeddings |-> <<>>]

(* generate and chat reject an answer without text; embed has no such test *)
ResponseRejected(o, resp) == o # "embed" /\ resp.text = <<>>

PromiseAllByArrival(vecs, order) ==
  [k \in 1..Len(vecs) |-> vecs[order[k]]]

(* await Promise.all(promises): the values in the order of the promises,   *)
(* whatever the order in which they were fulfilled                         *)
PromiseAll(vecs, order) == vecs

(* ---- the driver methods generate / chat / embed ---- *)
(* throw out of withRetry, caught by the method and classified *)
Throw(error) ==
  /\ raised' = error
  /\ result' = Thrown(mapCommonErrors(providerName, error))
  /\ pc' = "done"
  /\ UNCHANGED <<waits, delay>>

CatchWaitsBeforeThrow(error) ==
  /\ lastError' = error
  /\ IF NoRetry(error) THEN Throw(error)
     ELSE IF LastAttempt(attempt, maxRetries)
       THEN /\ raised' = error
            /\ result' = Thrown(mapCommonErrors(providerName, error))
            /\ pc' = "done"
            /\ waits' = waits + 1
            /\ UNCHANGED delay
     ELSE /\ \E r \in 0..(RandSteps - 1) :
               delay' = BackoffBase(attempt) + Jitter(r)
          /\ waits' = waits + 1
          /\ pc' = "backoff"
          /\ UNCHANGED <<raised, result>>

(* the catch block of withRetry *)
Catch(error) ==
  /\ lastError' = error
  /\ IF NoRetry(error) THEN Throw(error)
     ELSE IF LastAttempt(attempt, maxRetries) THEN Throw(error)
     ELSE /\ \E r \in 0..(RandSteps - 1) :
               delay' = BackoffBase(attempt) + Jitter(r)
          /\ waits' = waits + 1
          /\ pc' = "backoff"
          /\ UNCHANGED <<raised, result>>

(* fn(): a new remote call raced against a new timer; Gemini's embed      *)
(* issues one request per text                                             *)
IssueCall(o, i) ==
  /\ \E out \in OutcomesFor(providerName, o, i) : inflight' = out
  /\ items' = IF o = "embed" /\ providerName = <<"g", "e", "m", "i", "n", "i">>
                THEN [j \in 1..Len(Texts(i)) |-> PendingItem] ELSE <<>>
  /\ arrivals' = <<>>
  /\ calls' = calls + 1
  /\ timer' = TimerLength(NotSet, timeout)
  /\ winner' = "none"
  /\ pc' = "racing"

Call(o, i) ==
  /\ pc = "idle"
  /\ op' = o
  /\ input' = i
  /\ IF ValidationError(o, i) # <<>>
       THEN /\ result' = Thrown(New(o, AIConfigurationException(
                                          ValidationError(o, i))))
            /\ pc' = "done"
            /\ UNCHANGED <<attempt, calls, waits, delay, timer, inflight,
                           winner, lastError, raised, embedVars>>
       ELSE /\ IssueCall(o, i)
            /\ attempt' = 0
            /\ UNCHANGED <<waits, delay, lastError, raised, result>>
  /\ UNCHANGED <<mgrVars, abandoned, driverFields, streamVars>>

(* the remote call settles before the timer *)
RemoteSettles ==
  /\ pc = "racing"
  /\ inflight.k \in {"resolve", "reject"}
  /\ winner' = "remote"
  /\ IF inflight.k = "reject" THEN Catch(inflight.err)
     ELSE IF ResponseRejected(op, inflight.resp)
       THEN Catch(NoResponseError(providerName))
     ELSE /\ result' = Returned(ResponseValue(providerName, op, input,
                                              inflight.resp))
          /\ pc' = "done"
          /\ UNCHANGED <<waits, delay, lastError, raised>>
  /\ UNCHANGED <<mgrVars, abandoned, driverFields, op, input, attempt, calls, timer, inflight,
                 embedVars, streamVars>>

(* Gemini embed: the request of text j settles before the timer. The       *)
(* promise of Promise.all is fulfilled when every request is, and rejected *)
(* by the first request that is rejected.                                  *)
ItemSettles(j) ==
  /\ pc = "racing"
  /\ inflight.k = "multi"
  /\ j \in 1..Len(items)
  /\ items[j].st = "pending"
  /\ \/ /\ items' = [items EXCEPT ![j] = [st |-> "resolved",
                                          vec |-> Embedding(Texts(input)[j])]]
        /\ arrivals' = Append(arrivals, j)
        /\ IF \A k \in 1..Len(items) : items'[k].st = "resolved"
             THEN /\ inflight' =
                       [k |-> "resolve",
                        resp |-> [NoResponse EXCEPT !.data =
                                    PromiseAll([k \in 1..Len(items) |->
                                                  items'[k].vec], arrivals')],
                        err |-> NoError]
                  /\ winner' = "remote"
                  /\ result' = Returned(ResponseValue(providerName, op, input,
                                                      inflight'.resp))
                  /\ pc' = "done"
                  /\ UNCHANGED <<waits, delay, lastError, raised>>
             ELSE UNCHANGED <<inflight, winner, result, pc, waits, delay,
                              lastError, raised>>
     \/ \E e \in ItemErrors :
          /\ items' = [items EXCEPT ![j] = [st |-> "rejected", vec |-> <<>>]]
          /\ arrivals' = Append(arrivals, j)
          /\ inflight' = [k |-> "reject", resp |-> NoResponse, err |-> e]
          /\ winner' = "remote"
          /\ Catch(e)
  /\ UNCHANGED <<mgrVars, abandoned, driverFields, op, input, attempt, calls, timer, streamVars>>

(* the timer fires before the remote call settles *)
TimerFires ==
  /\ pc = "racing"
  /\ winner' = "timer"
  /\ Catch(New("withTimeout", AITimeoutException(providerName, timer)))
  /\ abandoned' = abandoned + 1
  /\ UNCHANGED <<mgrVars, driverFields, op, input, attempt, calls, timer, inflight,
                 embedVars, streamVars>>

LateSettlementOverwrites(out) ==
  result' = IF out.k = "resolve"
              THEN Returned(ResponseValue(providerName, op, input, out.resp))
              ELSE Thrown(mapCommonErrors(providerName, out.err))

(* Promise.race has settled with the timer's rejection: the settlement of *)
(* the remote promise that lost the race is ignored                       *)
LateSettlement(out) == UNCHANGED result

(* a remote call whose attempt timed out completes or fails afterwards *)
LateSettles ==
  /\ abandoned > 0
  /\ abandoned' = abandoned - 1
  /\ \E out \in {o \in Outcomes : o.k # "pending"} : LateSettlement(out)
  /\ UNCHANGED <<mgrVars, driverFields, op, input, pc, attempt, calls, waits,
                 delay, timer, inflight, winner, lastError, raised, embedVars,
                 streamVars>>

(* the backoff wait ends: attempt++ and the next fn() *)
BackoffElapses ==
  /\ pc = "backoff"
  /\ attempt' = attempt + 1
  /\ delay' = 0
  /\ IssueCall(op, input)
  /\ UNCHANGED <<mgrVars, abandoned, driverFields, op, input, waits, lastError, raised, result,
                 streamVars>>

(* ---- the driver method stream and the generator processStream ---- *)
StreamOpenFailedRetry(error) == Catch(error)

(* catch (error) { throw this.mapCommonErrors(error) } around the request  *)
(* that opens the stream: no withRetry, no withTimeout                     *)
StreamOpenFailed(error) ==
  /\ lastError' = error
  /\ raised' = error
  /\ result' = Thrown(mapCommonErrors(providerName, error))
  /\ pc' = "done"
  /\ UNCHANGED <<waits, delay>>

StreamCall(i) ==
  /\ pc = "idle"
  /\ op' = "stream"
  /\ input' = i
  /\ IF ValidationError("stream", i) # <<>>
       THEN /\ result' = Thrown(New("stream", AIConfigurationException(
                                                ValidationError("stream", i))))
            /\ pc' = "done"
            /\ UNCHANGED <<calls, inflight>>
       ELSE /\ \E out \in StreamOutcomes : inflight' = out
            /\ calls' = calls + 1
            /\ pc' = "connecting"
            /\ UNCHANGED result
  /\ UNCHANGED <<mgrVars, abandoned, driverFields, attempt, waits, delay, timer, winner, lastError,
                 raised, embedVars, streamVars>>

(* the provider answers with a stream: { text: '', stream:                 *)
(* this.processStream(stream), usage: { tokens: 0 } }                      *)
StreamOpens ==
  /\ pc = "connecting"
  /\ inflight.k = "resolve"
  /\ winner' = "remote"
  /\ \E c \in ChunkScripts : \E f \in StreamEndings :
       src' = [open |-> TRUE, rest |-> c, fail |-> f]
  /\ gen' = "suspendedStart"
  /\ result' = Returned(NoValue)
  /\ pc' = "done"
  /\ UNCHANGED <<mgrVars, abandoned, driverFields, op, input, attempt, calls, waits, delay, timer,
                 inflight, lastError, raised, embedVars, consumer, fragments,
                 iterError>>

StreamOpenFails ==
  /\ pc = "connecting"
  /\ inflight.k = "reject"
  /\ winner' = "remote"
  /\ StreamOpenFailed(inflight.err)
  /\ UNCHANGED <<mgrVars, abandoned, driverFields, op, input, attempt, calls, timer, inflight,
                 embedVars, streamVars>>

ClosedStream(s) == [s EXCEPT !.open = FALSE]

(* Position of the first chunk with content, 0 when there is none:         *)
(* if (content) { yield content }                                          *)
FirstContent(rest) ==
  IF \E k \in 1..Len(rest) : rest[k] # <<>>
    THEN CHOOSE k \in 1..Len(rest) :
           rest[k] # <<>> /\ \A l \in 1..(k - 1) : rest[l] = <<>>
    ELSE 0

(* One resumption of the generator: it runs to the next yield, to the end  *)
(* of the provider stream, or to the error the provider stream throws,     *)
(* which nothing in the generator catches.                                 *)
processStream(s) ==
  LET k == FirstContent(s.rest)
  IN  IF k > 0
        THEN [kind |-> "yield", value |-> s.rest[k], error |-> NoError,
              stream |-> [s EXCEPT !.rest = SubSeq(s.rest, k + 1, Len(s.rest))]]
      ELSE IF s.fail = NoError
        THEN [kind |-> "return", value |-> <<>>, error |-> NoError,
              stream |-> ClosedStream([s EXCEPT !.rest = <<>>])]
      ELSE [kind |-> "throw", value |-> <<>>, error |-> s.fail,
            stream |-> ClosedStream([s EXCEPT !.rest = <<>>])]

GeneratorReturnLeaks(s) == s

(* gen.return() at a yield inside for await (const chunk of stream): the   *)
(* loop is left and closes the iterator of the provider stream             *)
GeneratorReturn(s) == ClosedStream(s)

(* for await (const chunk of result.stream): the consumer asks for the     *)
(* next fragment                                                           *)
ConsumerNext ==
  /\ gen \in {"suspendedStart", "suspendedYield"}
  /\ consumer \in {"none", "iterating"}
  /\ LET r == processStream(src)
     IN  /\ src' = r.stream
         /\ IF r.kind = "yield"
              THEN /\ gen' = "suspendedYield"
                   /\ consumer' = "iterating"
                   /\ fragments' = Append(fragments, r.value)
                   /\ UNCHANGED iterError
              ELSE /\ gen' = "completed"
                   /\ consumer' = "finished"
                   /\ iterError' = r.error
                   /\ UNCHANGED fragments
  /\ UNCHANGED <<mgrVars, abandoned, driverFields, callVars, embedVars>>

(* the consumer leaves its loop early (break, return or throw in the body) *)
ConsumerBreaks ==
  /\ gen = "suspendedYield"
  /\ consumer = "iterating"
  /\ gen' = "completed"
  /\ src' = GeneratorReturn(src)
  /\ consumer' = "finished"
  /\ UNCHANGED <<mgrVars, abandoned, driverFields, callVars, embedVars, fragments, iterError>>

(* a second loop over the same result.stream: the generator is completed   *)
(* and answers { done: true } at once                                      *)
ConsumerIteratesAgain ==
  /\ gen = "completed"
  /\ consumer = "finished"
  /\ consumer' = "finishedAgain"
  /\ UNCHANGED <<mgrVars, abandoned, driverFields, callVars, embedVars, gen, src, fragments,
                 iterError>>

Next ==
  \/ \E o \in Ops : \E i \in Inputs(o) : Call(o, i)
  \/ RemoteSettles
  \/ \E j \in 1..Len(items) : ItemSettles(j)
  \/ TimerFires
  \/ LateSettles
  \/ BackoffElapses
  \/ \E i \in Inputs("stream") : StreamCall(i)
  \/ StreamOpens
  \/ StreamOpenFails
  \/ ConsumerNext
  \/ ConsumerBreaks
  \/ ConsumerIteratesAgain

Spec == Init /\ [][Next]_vars

(* ---- classification on its own: catch (error) { throw mapCommonErrors } ---- *)
ClassifyMessages ==
  {<<>>, <<"U", "n", "a", "u", "t", "h", "o", "r", "i", "z", "e", "d">>, <<"i", "n", "v", "a", "l", "i", "d", " ", "a", "p", "i", " ", "k", "e", "y">>, <<"I", "n", "v", "a", "l", "i", "d", " ", "A", "p", "i", " ", "K", "e", "y">>,
   <<"A", "P", "I", "_", "K", "E", "Y", "_", "I", "N", "V", "A", "L", "I", "D">>, <<"a", "u", "t", "h", "e", "n", "t", "i", "c", "a", "t", "i", "o", "n", " ", "f", "a", "i", "l", "e", "d">>, <<"A", "u", "t", "h", "e", "n", "t", "i", "c", "a", "t", "i", "o", "n", " ", "f", "a", "i", "l", "e", "d">>,
   <<"r", "a", "t", "e", " ", "l", "i", "m", "i", "t", " ", "e", "x", "c", "e", "e", "d", "e", "d">>, <<"R", "a", "t", "e", " ", "L", "i", "m", "i", "t", " ", "e", "x", "c", "e", "e", "d", "e", "d">>, <<"r", "e", "q", "u", "e", "s", "t", " ", "t", "i", "m", "e", "o", "u", "t">>,
   <<"T", "i", "m", "e", "o", "u", "t">>, <<"e", "r", "r", "o", "r", " ", "4", "2", "9">>, <<"H", "T", "T", "P", " ", "5", "0", "3">>, <<"5", "0", "2", " ", "B", "a", "d", " ", "G", "a", "t", "e", "w", "a", "y">>,
   <<"S", "E", "R", "V", "I", "C", "E", "_", "U", "N", "A", "V", "A", "I", "L", "A", "B", "L", "E">>, <<"s", "e", "r", "v", "i", "c", "e", "_", "u", "n", "a", "v", "a", "i", "l", "a", "b", "l", "e">>, <<"s", "o", "c", "k", "e", "t", " ", "h", "a", "n", "g", " ", "u", "p">>,
   <<"4", "0", "1", " ", "r", "a", "t", "e", " ", "l", "i", "m", "i", "t", " ", "t", "i", "m", "e", "o", "u", "t", " ", "5", "0", "3">>, <<"r", "a", "t", "e", " ", "l", "i", "m", "i", "t", " ", "t", "i", "m", "e", "o", "u", "t">>,
   <<"S", "e", "r", "v", "i", "c", "e", " ", "t", "e", "m", "p", "o", "r", "a", "r", "i", "l", "y", " ", "u", "n", "a", "v", "a", "i", "l", "a", "b", "l", "e">>}

ClassifyStatuses ==
  {Undefined, Num(400), Num(401), Num(403), Num(408), Num(429), Num(500),
   Num(502), Num(503)}

ClassifyCodes == {Undefined, Num(429), Num(401), Str("ETIMEDOUT")}

InitClassify ==
  /\ providerName \in Providers
  /\ timeout = DefaultTimeout /\ maxRetries = DefaultMaxRetries
  /\ op = "generate" /\ input = <<Msg("user", <<"h", "e", "l", "l", "o">>)>> /\ pc = "caught"
  /\ attempt = 0 /\ calls = 1 /\ waits = 0 /\ delay = 0 /\ timer = 0
  /\ inflight = NoCall /\ winner = "remote"
  /\ \E m \in ClassifyMessages : \E s \in ClassifyStatuses :
       \E c \in ClassifyCodes : lastError = RawError(m, s, c)
  /\ raised = lastError /\ result = Pending
  /\ items = <<>> /\ arrivals = <<>>
  /\ gen = "none" /\ src = NoStream /\ consumer = "none"
  /\ fragments = <<>> /\ iterError = NoError
  /\ abandoned = 0
  /\ ManagerOff

Classify ==
  /\ pc = "caught"
  /\ result' = Thrown(mapCommonErrors(providerName, raised))
  /\ pc' = "done"
  /\ UNCHANGED <<mgrVars, abandoned, driverFields, op, input, attempt, calls, waits, delay, timer,
                 inflight, winner, lastError, raised, embedVars, streamVars>>

NextClassify == Classify

SpecClassify == InitClassify /\ [][NextClassify]_vars
(* ======================================================================= *)
(* AIManager (src/ai_manager.ts): registerDriver / use                     *)
(* ======================================================================= *)
DriverObjects == 1..2

NoDriver == 0

RegisterNames == Providers \cup {<<"m", "o", "c", "k">>}

UseNames == RegisterNames \cup {<<"u", "n", "k", "n", "o", "w", "n">>, <<>>}

MethodCall(method, arg) ==
  [method |-> method, given |-> arg.given, name |-> arg.name]

(* ---- Map<string, AIDriver>: entries in insertion order ---- *)
MapHas(m, k) == \E j \in 1..Len(m) : m[j].name = k

(* undefined when the key is absent *)
MapGet(m, k) ==
  IF MapHas(m, k) THEN m[CHOOSE j \in 1..Len(m) : m[j].name = k].driver
  ELSE NoDriver

MapSetMoveToEnd(m, k, v) ==
  Append(SelectSeq(m, LAMBDA e : e.name # k), [name |-> k, driver |-> v])

(* set on a key that is present replaces the value and keeps the position *)
MapSet(m, k, v) ==
  IF MapHas(m, k)
    THEN [j \in 1..Len(m) |->
            IF m[j].name = k THEN [name |-> k, driver |-> v] ELSE m[j]]
    ELSE Append(m, [name |-> k, driver |-> v])

MapKeys(m) == [j \in 1..Len(m) |-> m[j].name]

AIDriverNotFoundException(driver) ==
  [origin |-> "", cls |-> "AIDriverNotFoundException",
   message |-> <<"A", "I", " ", "d", "r", "i", "v", "e", "r", " ">> \o <<"\"">> \o driver \o <<"\"">>
                 \o <<" ", "i", "s", " ", "n", "o", "t", " ", "r", "e", "g", "i", "s", "t", "e", "r", "e", "d", " ", "o", "r", " ", "n", "o", "t", " ", "c", "o", "n", "f", "i", "g", "u", "r", "e", "d">>,
   code |-> Str("E_AI_DRIVER_NOT_FOUND"), status |-> Num(500)]

ReturnedDriver(d) == [NoResult EXCEPT !.st = "returned", !.driver = d]

ReturnedMap(m) == [NoResult EXCEPT !.st = "returned", !.map = m]

ThrownByManager(e) == [NoResult EXCEPT !.st = "thrown", !.error = e]

(* const driverName = driver || this.config.default *)
DriverName(arg) ==
  IF arg.given /\ arg.name # <<>> THEN arg.name ELSE config.default

useFallback(arg) ==
  IF MapGet(drivers, DriverName(arg)) # NoDriver
    THEN ReturnedDriver(MapGet(drivers, DriverName(arg)))
  ELSE IF Len(drivers) > 0 THEN ReturnedDriver(drivers[1].driver)
  ELSE ThrownByManager(New("use", AIDriverNotFoundException(DriverName(arg))))

(* AIManager.use(driver?) *)
use(arg) ==
  LET aiDriver == MapGet(drivers, DriverName(arg))
  IN  IF aiDriver = NoDriver
        THEN ThrownByManager(New("use",
                                 AIDriverNotFoundException(DriverName(arg))))
        ELSE ReturnedDriver(aiDriver)

getAvailableDrivers == MapKeys(drivers)

hasDriver(n) == MapHas(drivers, n)

(* new AIManager(config) *)
InitManager ==
  /\ DriverOff
  /\ \E n \in Providers : config = [default |-> n, disks |-> <<>>]
  /\ drivers = <<>> /\ registrations = <<>>
  /\ mcall = NoMethod /\ mpc = "idle" /\ mresult = NoResult
  /\ results = <<>> /\ probes = <<>> /\ instances = <<>>
  /\ AiOff

managerFrame == <<providerName, timeout, maxRetries, callVars, embedVars,
                  abandoned, instances, ai, callers,
                  streamVars, results, probes>>

RegisterDriver(n, d) ==
  /\ mpc \in {"idle", "done"}
  /\ Len(registrations) < MaxRegs
  /\ drivers' = MapSet(drivers, n, d)
  /\ registrations' = Append(registrations, [name |-> n, driver |-> d])
  /\ mcall' = MethodCall("registerDriver", Given(n))
  /\ mresult' = NoResult
  /\ mpc' = "done"
  /\ UNCHANGED <<managerFrame, config>>

Use(arg) ==
  /\ mpc \in {"idle", "done"}
  /\ mcall' = MethodCall("use", arg)
  /\ mresult' = use(arg)
  /\ mpc' = "done"
  /\ UNCHANGED <<managerFrame, config, drivers, registrations>>

(* useDefault(): return this.use() *)
UseDefault ==
  /\ mpc \in {"idle", "done"}
  /\ mcall' = MethodCall("useDefault", Omitted)
  /\ mresult' = use(Omitted)
  /\ mpc' = "done"
  /\ UNCHANGED <<managerFrame, config, drivers, registrations>>

(* get default(): return this.use(this.config.default) *)
Default ==
  /\ mpc \in {"idle", "done"}
  /\ mcall' = MethodCall("default", Omitted)
  /\ mresult' = use(Given(config.default))
  /\ mpc' = "done"
  /\ UNCHANGED <<managerFrame, config, drivers, registrations>>

GetAvailableDrivers ==
  /\ mpc \in {"idle", "done"}
  /\ mcall' = MethodCall("getAvailableDrivers", Omitted)
  /\ mresult' = ReturnedMap(getAvailableDrivers)
  /\ mpc' = "done"
  /\ UNCHANGED <<managerFrame, config, drivers, registrations>>

NextManager ==
  \/ \E n \in RegisterNames : \E d \in DriverObjects : RegisterDriver(n, d)
  \/ \E n \in UseNames : Use(Given(n))
  \/ Use(Omitted)
  \/ UseDefault
  \/ Default
  \/ GetAvailableDrivers

SpecManager == InitManager /\ [][NextManager]_vars

(* ======================================================================= *)
(* AiManager (src/ai_manager.ts): validateConfig / testProviders           *)
(* ======================================================================= *)
ApiKeys == {<<>>, <<"s", "k">>}

(* disks[name].driver: absent, or the name of a driver nobody registered *)
DiskDrivers == {<<>>, <<"m", "o", "c", "k">>}

Disk(n, k, dr) == [name |-> n, apiKey |-> k, driver |-> dr]

DiskEntries ==
  {Disk(n, k, dr) : n \in Providers, k \in ApiKeys, dr \in DiskDrivers}

(* config.disks: an object, its entries in insertion order *)
Disks ==
  {<<>>}
  \cup {<<a>> : a \in DiskEntries}
  \cup {s \in {<<a, b>> : a \in DiskEntries, b \in DiskEntries} :
          s[1].name # s[2].name}

(* config.default: unset, or a provider name *)
Defaults == {<<>>} \cup Providers

(* registerDefaultDriversSync() *)
DriverConstructors == {<<"o", "p", "e", "n", "a", "i">>, <<"g", "e", "m", "i", "n", "i">>}

Quoted(s) == <<"\"">> \o s \o <<"\"">>

AiConfigurationError(message) ==
  [origin |-> "", cls |-> "AiConfigurationError", message |-> message,
   code |-> Str("AI_CONFIGURATION_ERROR"), status |-> Undefined]

AiProviderError(message) ==
  [origin |-> "", cls |-> "AiProviderError", message |-> message,
   code |-> Str("AI_PROVIDER_ERROR"), status |-> Undefined]

ReturnedVoid == [NoResult EXCEPT !.st = "returned"]

(* provider in this.config.disks *)
hasProvider(provider) ==
  \E j \in 1..Len(config.disks) : config.disks[j].name = provider

(* Object.keys(this.config.disks) *)
getProviders == [j \in 1..Len(config.disks) |-> config.disks[j].name]

validateConfigNoKeys ==
  IF config.default = <<>>
    THEN ThrownByManager(New("validateConfig", AiConfigurationError(
                               <<"D", "e", "f", "a", "u", "l", "t", " ", "A", "I", " ", "p", "r", "o", "v", "i", "d", "e", "r", " ", "i", "s", " ", "n", "o", "t", " ", "c", "o", "n", "f", "i", "g", "u", "r", "e", "d">>)))
  ELSE IF ~hasProvider(config.default)
    THEN ThrownByManager(New("validateConfig", AiConfigurationError(
                               <<"D", "e", "f", "a", "u", "l", "t", " ", "A", "I", " ", "p", "r", "o", "v", "i", "d", "e", "r", " ">> \o Quoted(config.default)
                                 \o <<" ", "i", "s", " ", "n", "o", "t", " ", "c", "o", "n", "f", "i", "g", "u", "r", "e", "d">>)))
  ELSE ReturnedVoid

(* AiManager.validateConfig() *)
validateConfig ==
  IF config.default = <<>>
    THEN ThrownByManager(New("validateConfig", AiConfigurationError(
                               <<"D", "e", "f", "a", "u", "l", "t", " ", "A", "I", " ", "p", "r", "o", "v", "i", "d", "e", "r", " ", "i", "s", " ", "n", "o", "t", " ", "c", "o", "n", "f", "i", "g", "u", "r", "e", "d">>)))
  ELSE IF ~hasProvider(config.default)
    THEN ThrownByManager(New("validateConfig", AiConfigurationError(
                               <<"D", "e", "f", "a", "u", "l", "t", " ", "A", "I", " ", "p", "r", "o", "v", "i", "d", "e", "r", " ">> \o Quoted(config.default)
                                 \o <<" ", "i", "s", " ", "n", "o", "t", " ", "c", "o", "n", "f", "i", "g", "u", "r", "e", "d">>)))
  ELSE IF \E j \in 1..Len(config.disks) : config.disks[j].apiKey = <<>>
    THEN LET j == CHOOSE j \in 1..Len(config.disks) :
                    /\ config.disks[j].apiKey = <<>>
                    /\ \A l \in 1..(j - 1) : config.disks[l].apiKey # <<>>
         IN  ThrownByManager(New("validateConfig", AiConfigurationError(
                                   <<"A", "I", " ", "p", "r", "o", "v", "i", "d", "e", "r", " ">> \o Quoted(config.disks[j].name)
                                     \o <<" ", "i", "s", " ", "m", "i", "s", "s", "i", "n", "g", " ", "A", "P", "I", " ", "k", "e", "y">>)))
  ELSE ReturnedVoid

(* new AiManager(config) *)
InitAiManager ==
  /\ DriverOff
  /\ \E df \in Defaults : \E ds \in Disks : config = [default |-> df, disks |-> ds]
  /\ drivers = <<>> /\ registrations = <<>>
  /\ mcall = NoMethod /\ mpc = "idle" /\ mresult = NoResult
  /\ results = <<>> /\ probes = <<>> /\ instances = <<>>
  /\ AiOff

aiManagerFrame == <<providerName, timeout, maxRetries, callVars, embedVars,
                    abandoned, instances, ai, callers,
                    streamVars, registrations>>

ValidateConfig ==
  /\ mpc \in {"idle", "done"}
  /\ mcall' = MethodCall("validateConfig", Omitted)
  /\ mresult' = validateConfig
  /\ mpc' = "done"
  /\ UNCHANGED <<aiManagerFrame, config, drivers, results, probes>>

(* testProviders(): const results = {}; for (const provider of ...) *)
TestProviders ==
  /\ mpc \in {"idle", "done"}
  /\ mcall' = MethodCall("testProviders", Omitted)
  /\ results' = <<>>
  /\ probes' = <<>>
  /\ IF Len(getProviders) = 0
       THEN mpc' = "done" /\ mresult' = ReturnedMap(<<>>)
       ELSE mpc' = "probing" /\ mresult' = NoResult
  /\ UNCHANGED <<aiManagerFrame, config, drivers>>

(* the end of one iteration of the loop of testProviders *)
EndOfIteration ==
  IF Len(results') = Len(getProviders)
    THEN mpc' = "done" /\ mresult' = ReturnedMap(results')
    ELSE UNCHANGED <<mpc, mresult>>

(* results[provider] = await driver.isConfigured() *)
RecordProbe(provider, ok) ==
  /\ results' = Append(results, [name |-> provider, ok |-> ok])
  /\ probes' = Append(probes, IF ok THEN "true" ELSE "false")
  /\ EndOfIteration

CatchProbeRethrow(provider, what) ==
  /\ results' = results
  /\ probes' = Append(probes, what)
  /\ mpc' = "done"
  /\ mresult' = ThrownByManager(New("testProviders", AiProviderError(
                                      <<"F", "a", "i", "l", "e", "d", " ", "t", "o", " ", "c", "r", "e", "a", "t", "e", " ", "A", "I", " ", "d", "r", "i", "v", "e", "r">>)))

(* catch { results[provider] = false } *)
CatchProbe(provider, what) ==
  /\ results' = Append(results, [name |-> provider, ok |-> FALSE])
  /\ probes' = Append(probes, what)
  /\ EndOfIteration

(* What the driver's constructor can do: the Gemini driver throws without  *)
(* an API key; any constructor can fail (its module is imported on use).   *)
CreateOutcomes(driverName, disk) ==
  IF driverName = <<"g", "e", "m", "i", "n", "i">> /\ disk.apiKey = <<>> THEN {"throws"}
  ELSE {"created", "throws"}

(* await driver.isConfigured(): true, false, or it throws *)
IsConfigured(provider) ==
  \/ RecordProbe(provider, TRUE)
  \/ RecordProbe(provider, FALSE)
  \/ CatchProbe(provider, "probe threw")

(* one iteration: const driver = await this.use(provider), then the probe *)
Probe ==
  /\ mpc = "probing"
  /\ LET disk == config.disks[Len(results) + 1]
         driverName == IF disk.driver # <<>> THEN disk.driver ELSE disk.name
     IN  \/ /\ MapHas(drivers, disk.name)
            /\ UNCHANGED drivers
            /\ IsConfigured(disk.name)
         \/ /\ ~MapHas(drivers, disk.name)
            /\ driverName \notin DriverConstructors
            /\ UNCHANGED drivers
            /\ CatchProbe(disk.name, "driver not registered")
         \/ /\ ~MapHas(drivers, disk.name)
            /\ driverName \in DriverConstructors
            /\ "throws" \in CreateOutcomes(driverName, disk)
            /\ UNCHANGED drivers
            /\ CatchProbe(disk.name, "driver not created")
         \/ /\ ~MapHas(drivers, disk.name)
            /\ driverName \in DriverConstructors
            /\ "created" \in CreateOutcomes(driverName, disk)
            /\ drivers' = MapSet(drivers, disk.name, Len(drivers) + 1)
            /\ IsConfigured(disk.name)
  /\ UNCHANGED <<aiManagerFrame, config, mcall>>

NextAiManager ==
  \/ ValidateConfig
  \/ TestProviders
  \/ Probe

SpecAiManager == InitAiManager /\ [][NextAiManager]_vars

(* ======================================================================= *)
(* defineConfig / services (src/ai_service.ts) and AIProvider.register     *)
(* (providers/ai_provider.ts): from config/ai.ts to the drivers of a       *)
(* manager, and one generate call on the driver use() returns              *)
(* ======================================================================= *)
(* timeout and maxRetries at the top of defineConfig({...}) *)
ManagerWide ==
  {[timeout |-> NotSet, maxRetries |-> NotSet],
   [timeout |-> 30000, maxRetries |-> 3],
   [timeout |-> 60000, maxRetries |-> 5]}

(* timeout and maxRetries inside services.openai({...}) / services.gemini *)
ServiceOwn ==
  {[timeout |-> NotSet, maxRetries |-> NotSet],
   [timeout |-> 5000, maxRetries |-> 0],
   [timeout |-> NotSet, maxRetries |-> 1]}

(* services: { <name>: services.<name>({ apiKey, timeout?, maxRetries? }) } *)
Service(n, key, own) ==
  [name |-> n, apiKey |-> key, timeout |-> own.timeout,
   maxRetries |-> own.maxRetries]

ServiceEntries(n) ==
  {Service(n, key, own) : key \in ApiKeys, own \in ServiceOwn}

ServiceMaps ==
  {<<s>> : s \in ServiceEntries(<<"o", "p", "e", "n", "a", "i">>) \cup ServiceEntries(<<"g", "e", "m", "i", "n", "i">>)}
  \cup {<<o, g>> : o \in ServiceEntries(<<"o", "p", "e", "n", "a", "i">>),
                   g \in ServiceEntries(<<"g", "e", "m", "i", "n", "i">>)}

RuntimeException(message) ==
  [origin |-> "", cls |-> "RuntimeException", message |-> message,
   code |-> Str("E_RUNTIME_EXCEPTION"), status |-> Num(500)]

(* resolver(name): if (!config.apiKey) throw new RuntimeException(...) *)
MissingApiKey(name) ==
  RuntimeException(<<"I", "n", "v", "a", "l", "i", "d", " ", "A", "I", " ", "c", "o", "n", "f", "i", "g", ".", " ", "M", "i", "s", "s", "i", "n", "g", " ">> \o Quoted(<<"a", "p", "i", "K", "e", "y">>)
                   \o <<" ", "o", "p", "t", "i", "o", "n", " ", "i", "n", " ">> \o Quoted(<<"s", "e", "r", "v", "i", "c", "e", "s", ".">> \o name)
                   \o <<" ", "o", "b", "j", "e", "c", "t">>)

(* for (let serviceName of serviceNames) ... await service.resolver(name): *)
(* the position of the first service whose resolver throws, 0 when none    *)
FirstUnresolved(services) ==
  IF \E j \in 1..Len(services) : services[j].apiKey = <<>>
    THEN CHOOSE j \in 1..Len(services) :
           /\ services[j].apiKey = <<>>
           /\ \A k \in 1..(j - 1) : services[k].apiKey # <<>>
    ELSE 0

(* const { services, default, timeout = 30000, maxRetries = 3 } = config;  *)
(* return { default, timeout, maxRetries, services: aiServices }           *)
defineConfig(raw) ==
  [default |-> raw.default,
   timeout |-> TimeoutParam(raw.timeout),
   maxRetries |-> MaxRetriesParam(raw.maxRetries),
   services |-> raw.services]

(* () => new OpenAIDriver(config) / () => new GeminiDriver(config), with   *)
(* config the argument of services.openai / services.gemini;               *)
(* super('openai', config.timeout, config.maxRetries)                      *)
driverFactory(resolved, service) ==
  [providerName |-> service.name,
   timeout |-> TimeoutParam(service.timeout),
   maxRetries |-> MaxRetriesParam(service.maxRetries)]

(* config/ai.ts as written by the application *)
InitProvider ==
  /\ DriverOff
  /\ \E d \in Providers : \E w \in ManagerWide : \E s \in ServiceMaps :
       config = [default |-> d, timeout |-> w.timeout,
                 maxRetries |-> w.maxRetries, services |-> s]
  /\ drivers = <<>> /\ registrations = <<>>
  /\ mcall = NoMethod /\ mpc = "config" /\ mresult = NoResult
  /\ results = <<>> /\ probes = <<>> /\ instances = <<>>
  /\ AiOff

(* container.singleton('ai.manager', ...): resolve the configuration, then *)
(* new AIManager(config) and registerDriver(serviceName, driverFactory())  *)
(* for every entry of config.services                                      *)
Register ==
  /\ mpc = "config"
  /\ mcall' = MethodCall("register", Omitted)
  /\ IF FirstUnresolved(config.services) # 0
       THEN /\ mresult' = ThrownByManager(New("resolver",
                 MissingApiKey(
                   config.services[FirstUnresolved(config.services)].name)))
            /\ mpc' = "failed"
            /\ UNCHANGED <<config, drivers, registrations, instances>>
       ELSE /\ config' = defineConfig(config)
            /\ instances' = [j \in 1..Len(config.services) |->
                               driverFactory(config', config.services[j])]
            /\ drivers' = [j \in 1..Len(config.services) |->
                             [name |-> config.services[j].name, driver |-> j]]
            /\ registrations' = drivers'
            /\ mresult' = ReturnedVoid
            /\ mpc' = "idle"
  /\ UNCHANGED <<providerName, timeout, maxRetries, callVars, embedVars,
                 abandoned, streamVars, results, probes, ai, callers>>

(* manager.use(): no driver of this manager is in a call *)
ManagerUse ==
  /\ pc = "off"
  /\ Use(Omitted)

(* manager.use().generate(...): the call runs on the driver use() returned *)
Dispatch ==
  /\ mpc = "done"
  /\ mcall.method = "use"
  /\ mresult.st = "returned"
  /\ pc = "off"
  /\ providerName' = instances[mresult.driver].providerName
  /\ timeout' = instances[mresult.driver].timeout
  /\ maxRetries' = instances[mresult.driver].maxRetries
  /\ pc' = "idle"
  /\ UNCHANGED <<mgrVars, abandoned, op, input, attempt, calls, waits, delay,
                 timer, inflight, winner, lastError, raised, result,
                 embedVars, streamVars>>

Hello == <<Msg("user", <<"h", "e", "l", "l", "o">>)>>

NextProvider ==
  \/ Register
  \/ ManagerUse
  \/ Dispatch
  \/ Call("generate", Hello)
  \/ RemoteSettles
  \/ TimerFires
  \/ LateSettles
  \/ BackoffElapses

SpecProvider == InitProvider /\ [][NextProvider]_vars

(* ======================================================================= *)
(* Ai (src/ai.ts) and AiService (src/ai_service.ts) over AiManager.use:    *)
(* callers of one shared object, their calls interleaved at every await    *)
(* ======================================================================= *)
MaxAiCalls == 4

Callers == 1..2

AiClasses == {"Ai", "AiService"}

AiMethods == {"generateText", "generateChat", "generateEmbeddings"}

AiUseNames == Providers \cup {<<"u", "n", "k", "n", "o", "w", "n">>}

(* the caller's last completed use / resetProvider *)
NoSelection == [kind |-> "none", name |-> <<>>]

Used(p) == [kind |-> "used", name |-> p]

UseFailed(p) == [kind |-> "failed", name |-> p]

WasReset == [kind |-> "reset", name |-> <<>>]

(* A caller: where it is in its call, the method, the provider name handed *)
(* to AiManager.use, the outcome; and what the caller has asked for so     *)
(* far: its last completed use / resetProvider, the provider it selected   *)
(* by a use that succeeded, whether a use of its own has failed.           *)
NewCaller ==
  [pc |-> "ready", method |-> "", target |-> <<>>, res |-> NoResult,
   last |-> NoSelection, sel |-> Omitted, useFailed |-> FALSE, n |-> 0]

Awaiting == [NoResult EXCEPT !.st = "awaiting"]

CallsMade == callers[1].n + callers[2].n

DiskOf(provider) ==
  config.disks[CHOOSE j \in 1..Len(config.disks) :
                 config.disks[j].name = provider]

(* const driverName = providerConfig.driver || provider *)
DriverNameOf(provider) ==
  IF DiskOf(provider).driver # <<>> THEN DiskOf(provider).driver
  ELSE provider

(* AiManager.use(provider) up to its await *)
useBegins(provider) ==
  IF MapHas(drivers, provider) THEN ReturnedDriver(MapGet(drivers, provider))
  ELSE IF ~hasProvider(provider)
    THEN ThrownByManager(New("use", AiProviderError(
           <<"A", "I", " ", "p", "r", "o", "v", "i", "d", "e", "r", " ">> \o Quoted(provider) \o <<" ", "i", "s", " ", "n", "o", "t", " ", "c", "o", "n", "f", "i", "g", "u", "r", "e", "d">>)))
  ELSE IF DriverNameOf(provider) \notin DriverConstructors
    THEN ThrownByManager(New("use", AiProviderError(
           <<"A", "I", " ", "d", "r", "i", "v", "e", "r", " ">> \o Quoted(DriverNameOf(provider))
             \o <<" ", "i", "s", " ", "n", "o", "t", " ", "r", "e", "g", "i", "s", "t", "e", "r", "e", "d">>)))
  ELSE Awaiting

(* catch (error) { throw new AiProviderError(`Failed to create ...`) } *)
CreateFailed(provider) ==
  ThrownByManager(New("use", AiProviderError(
    <<"F", "a", "i", "l", "e", "d", " ", "t", "o", " ", "c", "r", "e", "a", "t", "e", " ", "A", "I", " ", "d", "r", "i", "v", "e", "r", " ">> \o Quoted(DriverNameOf(provider))
      \o <<":", " ", "A", "P", "I", " ", "k", "e", "y", " ", "i", "s", " ", "r", "e", "q", "u", "i", "r", "e", "d">>)))

(* the promise of the caller's method settles *)
Settled(c, r) ==
  [c EXCEPT
     !.pc = "ready",
     !.res = r,
     !.last = IF c.method # "use" THEN @
              ELSE IF r.st = "returned" THEN Used(c.target)
              ELSE UseFailed(c.target),
     !.sel = IF c.method = "use" /\ r.st = "returned" THEN Given(c.target)
             ELSE @,
     !.useFailed = @ \/ (c.method = "use" /\ r.st = "thrown")]

(* method(...) calls AiManager.use(provider) *)
Begun(c, method, provider) ==
  LET started == [c EXCEPT !.method = method, !.target = provider,
                           !.n = @ + 1]
  IN  IF useBegins(provider) = Awaiting
        THEN [started EXCEPT !.pc = "constructing", !.res = NoResult]
        ELSE Settled(started, useBegins(provider))

(* if (this.currentProvider) *)
ProviderSelected == ai.currentProvider.given /\ ai.currentProvider.name # <<>>

getCurrentProvider == ai.currentProvider

(* new Ai(new AiManager(config)) / new AiService(config) *)
InitAi ==
  /\ DriverOff
  /\ \E df \in Providers : \E key \in ApiKeys :
       config = [default |-> df,
                 disks |-> <<Disk(<<"o", "p", "e", "n", "a", "i">>, <<"s", "k">>, <<>>),
                             Disk(<<"g", "e", "m", "i", "n", "i">>, key, <<>>)>>]
  /\ drivers = <<>> /\ registrations = <<>>
  /\ mcall = NoMethod /\ mpc = "idle" /\ mresult = NoResult
  /\ results = <<>> /\ probes = <<>> /\ instances = <<>>
  /\ \E cls \in AiClasses : ai = [cls |-> cls, currentProvider |-> Omitted]
  /\ callers = [c \in Callers |-> NewCaller]

aiFrame == <<providerName, timeout, maxRetries, callVars, embedVars,
             abandoned, streamVars, instances, results, probes, config,
             mcall, mpc, mresult>>

(* use(provider): this.currentProvider = provider;                         *)
(* return this.manager.use(provider) / super.use(provider)                 *)
AiUse(c, provider) ==
  /\ callers[c].pc = "ready"
  /\ CallsMade < MaxAiCalls
  /\ ai' = [ai EXCEPT !.currentProvider = Given(provider)]
  /\ callers' = [callers EXCEPT ![c] = Begun(@, "use", provider)]
  /\ UNCHANGED <<aiFrame, drivers, registrations>>

(* Ai.getCurrentDriver calls this.manager.getDefaultDriver(), whose        *)
(* this.use is AiManager.use. AiService.getCurrentDriver calls             *)
(* super.getDefaultDriver(), whose this.use is AiService.use.              *)
getDefaultDriverAssigns == ai.cls = "AiService"

(* generateText / generateChat / generateEmbeddings:                       *)
(* const driver = await this.getCurrentDriver()                            *)
Generate(c, method) ==
  /\ callers[c].pc = "ready"
  /\ CallsMade < MaxAiCalls
  /\ IF ProviderSelected
       THEN /\ callers' = [callers EXCEPT
                             ![c] = Begun(@, method, ai.currentProvider.name)]
            /\ UNCHANGED ai
       ELSE /\ callers' = [callers EXCEPT
                             ![c] = Begun(@, method, config.default)]
            /\ ai' = IF getDefaultDriverAssigns
                       THEN [ai EXCEPT !.currentProvider =
                                         Given(config.default)]
                       ELSE ai
  /\ UNCHANGED <<aiFrame, drivers, registrations>>

(* resetProvider(): this.currentProvider = undefined *)
ResetProvider(c) ==
  /\ callers[c].pc = "ready"
  /\ CallsMade < MaxAiCalls
  /\ ai' = [ai EXCEPT !.currentProvider = Omitted]
  /\ callers' = [callers EXCEPT
                   ![c] = [@ EXCEPT !.method = "resetProvider",
                                    !.target = <<>>, !.res = ReturnedVoid,
                                    !.last = WasReset, !.sel = Omitted,
                                    !.n = @ + 1]]
  /\ UNCHANGED <<aiFrame, drivers, registrations>>

(* const driver = await DriverConstructor(providerConfig);                 *)
(* this.drivers.set(provider, driver); return driver                       *)
ConstructorSettles(c) ==
  /\ callers[c].pc = "constructing"
  /\ LET provider == callers[c].target
     IN  \/ /\ "created" \in CreateOutcomes(DriverNameOf(provider),
                                            DiskOf(provider))
            /\ drivers' = MapSet(drivers, provider, Len(registrations) + 1)
            /\ registrations' =
                 Append(registrations,
                        [name |-> provider, driver |-> Len(registrations) + 1])
            /\ callers' = [callers EXCEPT
                             ![c] = Settled(@, ReturnedDriver(
                                                 Len(registrations) + 1))]
         \/ /\ "throws" \in CreateOutcomes(DriverNameOf(provider),
                                           DiskOf(provider))
            /\ callers' = [callers EXCEPT
                             ![c] = Settled(@, CreateFailed(provider))]
            /\ UNCHANGED <<drivers, registrations>>
  /\ UNCHANGED <<aiFrame, ai>>

NextAi ==
  \/ \E c \in Callers : \E p \in AiUseNames : AiUse(c, p)
  \/ \E c \in Callers : \E m \in AiMethods : Generate(c, m)
  \/ \E c \in Callers : ResetProvider(c)
  \/ \E c \in Callers : ConstructorSettles(c)

SpecAi == InitAi /\ [][NextAi]_vars


(* ======================================================================= *)
(* Properties                                                              *)
(* ======================================================================= *)

(* The error kind of the specification's taxonomy that an exception is. *)
KindOf(e) ==
  IF e.cls = "AIApiKeyException" THEN "AuthError"
  ELSE IF e.cls = "AIRateLimitException" THEN "RateLimitError"
  ELSE IF e.cls = "AITimeoutException" THEN "TimeoutError"
  ELSE IF e.cls = "AIServiceException" /\ e.status = Num(503)
    THEN "ServiceUnavailable"
  ELSE IF e.cls = "AIServiceException" THEN "GenericServiceError"
  ELSE IF e.cls = "AIConfigurationException" THEN "ConfigurationError"
  ELSE "Unclassified"

RemoteFailureKinds ==
  {"AuthError", "RateLimitError", "TimeoutError", "ServiceUnavailable",
   "GenericServiceError"}

(* The error with which the current attempt failed. *)
AttemptError ==
  IF winner = "timer"
    THEN New("withTimeout", AITimeoutException(providerName, timeout))
  ELSE IF inflight.k = "reject" THEN inflight.err
  ELSE NoResponseError(providerName)

HasStatus(e, codes) == \E c \in codes : e.status = Num(c)

(* retryable in the sense of the specification: not classified AuthError,  *)
(* and raw status none of 400/401/403                                      *)
Retryable(e) ==
  /\ KindOf(mapCommonErrors(providerName, e)) # "AuthError"
  /\ ~HasStatus(e, {400, 401, 403})

(* C1: withRetry invokes the remote call at most maxRetries + 1 times; when *)
(* the call ends in a failure whose last error is retryable, every attempt  *)
(* failed, exactly maxRetries + 1 calls were made and withRetry raised the  *)
(* error of the last attempt; with maxRetries = 0 exactly one call is made. *)
C1_RetryBound ==
  /\ calls <= maxRetries + 1
  /\ (pc = "done" /\ op \in Ops /\ result.st = "thrown" /\ calls > 0
        /\ Retryable(AttemptError))
       => /\ calls = maxRetries + 1
          /\ raised = AttemptError
          /\ result.error = mapCommonErrors(providerName, AttemptError)
  /\ (pc = "done" /\ calls > 0 /\ maxRetries = 0) => calls = 1

C1_Witness ==
  /\ pc = "done" /\ result.st = "thrown" /\ maxRetries = 3 /\ calls = 4
  /\ Retryable(AttemptError) /\ raised = AttemptError

(* C2: an attempt whose remote call fails with raw status 400, 401 or 403   *)
(* ends the call at once: no further attempt and no backoff wait follow it, *)
(* whatever maxRetries is, and for 401 the caller receives AuthError.       *)
C2_NoRetryOnStatus ==
  (winner = "remote" /\ inflight.k = "reject"
     /\ HasStatus(inflight.err, {400, 401, 403}))
    => /\ pc = "done"
       /\ calls = attempt + 1
       /\ waits = attempt
       /\ result.st = "thrown"
       /\ HasStatus(inflight.err, {401}) => KindOf(result.error) = "AuthError"

C2_Witness ==
  /\ pc = "done" /\ maxRetries = MaxRetriesBound /\ calls = 1 /\ waits = 0
  /\ winner = "remote" /\ inflight.k = "reject"
  /\ HasStatus(inflight.err, {401})
  /\ KindOf(result.error) = "AuthError"

(* C3: a remote failure that classifies as AuthError is never retried: no   *)
(* backoff wait is started after an attempt whose error maps to AuthError.  *)
C3_AuthNeverRetried ==
  (pc = "backoff" /\ winner = "remote")
    => KindOf(mapCommonErrors(providerName, lastError)) # "AuthError"

(* C4: a call that returns a result returns the answer of its last remote   *)
(* call, made exactly attempt + 1 <= maxRetries + 1 remote calls with one   *)
(* wait between consecutive calls, and issues no call after the success.    *)
C4_SuccessAfterRetries ==
  /\ [](pc = "done" /\ result.st = "returned"
          => /\ winner = "remote" /\ inflight.k = "resolve"
             /\ op \in {"generate", "chat"}
                  => /\ result.value.text = inflight.resp.text
                     /\ result.value.text # <<>>
             /\ calls = attempt + 1
             /\ calls <= maxRetries + 1
             /\ waits = attempt)
  /\ [][pc = "done" => calls' = calls /\ result' = result]_vars

C4_Witness ==
  /\ pc = "done" /\ result.st = "returned" /\ maxRetries = 3 /\ calls = 3
  /\ waits = 2 /\ lastError.status = Num(503)
  /\ result.value.text = <<"h", "i">>

(* C5: the wait after failed attempt n is base + jitter with base 1000,     *)
(* 2000, 4000, 8000 for n = 0..3 and 10000 from n = 4 on, and jitter in     *)
(* [0, 1000).                                                               *)
C5_BackoffDelay ==
  pc = "backoff"
    => LET base == IF attempt >= 4 THEN 10000
                   ELSE <<1000, 2000, 4000, 8000>>[attempt + 1]
       IN  base <= delay /\ delay < base + 1000 /\ base <= 10000

C5_Witness == pc = "backoff" /\ attempt = 4 /\ delay > 10000 /\ delay < 11000

(* C6: when the timer wins the race of the last attempt, the TimeoutError   *)
(* the caller receives carries the configured timeout.                      *)
C6_TimeoutCarriesConfigured ==
  (pc = "done" /\ winner = "timer" /\ KindOf(result.error) = "TimeoutError")
    => result.error.message = AITimeoutException(providerName, timeout).message

C8_ClassificationTotal ==
  pc = "done"
    => /\ result.st = "thrown"
       /\ result.error.origin = "mapCommonErrors"
       /\ result.error # raised
       /\ KindOf(result.error) \in RemoteFailureKinds
       /\ (\A k \in {401, 429, 408, 502, 503} :
             /\ ~Includes(MessageOf(raised), ToDigits(k))
             /\ ~StrictEq(StatusCodeOf(raised), k))
          /\ (\A p \in {<<"a", "p", "i", " ", "k", "e", "y">>, <<"A", "P", "I", "_", "K", "E", "Y">>, <<"a", "u", "t", "h", "e", "n", "t", "i", "c", "a", "t", "i", "o", "n">>,
                        <<"r", "a", "t", "e", " ", "l", "i", "m", "i", "t">>, <<"t", "i", "m", "e", "o", "u", "t">>, <<"S", "E", "R", "V", "I", "C", "E", "_", "U", "N", "A", "V", "A", "I", "L", "A", "B", "L", "E">>} :
                ~Includes(MessageOf(raised), p))
            => /\ KindOf(result.error) = "GenericServiceError"
               /\ Includes(result.error.message, MessageOf(raised))

C8_Witness ==
  /\ pc = "done" /\ raised.message = <<>> /\ raised.status = Num(500)
  /\ KindOf(result.error) = "GenericServiceError"
  /\ result.error.origin = "mapCommonErrors"

NoStatusNoCode(e) == e.status = Undefined /\ e.code = Undefined

IncludesAnyCase(s, p) == Includes(ToLowerCase(s), ToLowerCase(p))

(* C9 as stated: a raw error without status code whose message contains    *)
(* "rate limit", "timeout", "api key" or "authentication" in any letter     *)
(* case is not classified GenericServiceError.                              *)
C9_CaseInsensitive ==
  (pc = "done" /\ NoStatusNoCode(raised)
     /\ \E p \in {<<"r", "a", "t", "e", " ", "l", "i", "m", "i", "t">>, <<"t", "i", "m", "e", "o", "u", "t">>, <<"a", "p", "i", " ", "k", "e", "y">>, <<"a", "u", "t", "h", "e", "n", "t", "i", "c", "a", "t", "i", "o", "n">>} :
          IncludesAnyCase(raised.message, p))
    => KindOf(result.error) # "GenericServiceError"

(* C9 amended: the match is case-sensitive. For a raw error without status  *)
(* code, "api key" or "authentication" in the message gives AuthError,      *)
(* "rate limit" gives RateLimitError and "timeout" gives TimeoutError, each *)
(* spelled exactly so and unless an earlier rule matches; a message that    *)
(* contains a pattern only in another letter case and no pattern in its own *)
(* is classified GenericServiceError.                                       *)
C9_CaseSensitive ==
  (pc = "done" /\ NoStatusNoCode(raised))
    => LET m == MessageOf(raised)
           k == KindOf(result.error)
           auth == \E p \in {<<"a", "p", "i", " ", "k", "e", "y">>, <<"A", "P", "I", "_", "K", "E", "Y">>, <<"a", "u", "t", "h", "e", "n", "t", "i", "c", "a", "t", "i", "o", "n">>,
                             <<"4", "0", "1">>} : Includes(m, p)
           rate == \E p \in {<<"r", "a", "t", "e", " ", "l", "i", "m", "i", "t">>, <<"4", "2", "9">>} : Includes(m, p)
           time == \E p \in {<<"t", "i", "m", "e", "o", "u", "t">>, <<"4", "0", "8">>} : Includes(m, p)
           svc == \E p \in {<<"5", "0", "3">>, <<"5", "0", "2">>, <<"S", "E", "R", "V", "I", "C", "E", "_", "U", "N", "A", "V", "A", "I", "L", "A", "B", "L", "E">>} :
                    Includes(m, p)
       IN  /\ (Includes(m, <<"a", "p", "i", " ", "k", "e", "y">>) \/ Includes(m, <<"a", "u", "t", "h", "e", "n", "t", "i", "c", "a", "t", "i", "o", "n">>))
                => k = "AuthError"
           /\ (Includes(m, <<"r", "a", "t", "e", " ", "l", "i", "m", "i", "t">>) /\ ~auth) => k = "RateLimitError"
           /\ (Includes(m, <<"t", "i", "m", "e", "o", "u", "t">>) /\ ~auth /\ ~rate) => k = "TimeoutError"
           /\ (~auth /\ ~rate /\ ~time /\ ~svc) => k = "GenericServiceError"

C9_Witness ==
  /\ pc = "done" /\ NoStatusNoCode(raised)
  /\ raised.message = <<"R", "a", "t", "e", " ", "L", "i", "m", "i", "t", " ", "e", "x", "c", "e", "e", "d", "e", "d">>
  /\ IncludesAnyCase(raised.message, <<"r", "a", "t", "e", " ", "l", "i", "m", "i", "t">>)
  /\ KindOf(result.error) = "GenericServiceError"

(* C10 as stated: AuthError carries 401, RateLimitError 429, TimeoutError   *)
(* 408, ServiceUnavailable 503 and GenericServiceError 500.                 *)
C10_StatusPerKind ==
  pc = "done"
    => LET k == KindOf(result.error)
       IN  result.error.status =
             Num(CASE k = "AuthError" -> 401
                   [] k = "RateLimitError" -> 429
                   [] k = "TimeoutError" -> 408
                   [] k = "ServiceUnavailable" -> 503
                   [] OTHER -> 500)

(* C10 amended: AuthError carries status 500 (not 401), RateLimitError 429, *)
(* TimeoutError 408, ServiceUnavailable 503 and GenericServiceError 500;    *)
(* the status 503 is given exactly to errors matching the 502/503 rule and  *)
(* no earlier one; every classified error has the provider name in its      *)
(* message and the code string of its class.                                *)
C10_StatusPerKindAmended ==
  pc = "done"
    => LET e == result.error
           m == MessageOf(raised)
           s == StatusCodeOf(raised)
       IN  /\ e.cls = "AIApiKeyException"
                => e.status = Num(500) /\ e.code = Str("E_AI_API_KEY_ERROR")
           /\ e.cls = "AIRateLimitException"
                => e.status = Num(429) /\ e.code = Str("E_AI_RATE_LIMIT")
           /\ e.cls = "AITimeoutException"
                => e.status = Num(408) /\ e.code = Str("E_AI_TIMEOUT")
           /\ e.cls = "AIServiceException"
                => /\ e.code = Str("E_AI_SERVICE_ERROR")
                   /\ e.status \in {Num(500), Num(503)}
                   /\ e.status = Num(503)
                        <=> \E p \in {502, 503} :
                              Includes(m, ToDigits(p)) \/ StrictEq(s, p)
                            \/ Includes(m, <<"S", "E", "R", "V", "I", "C", "E", "_", "U", "N", "A", "V", "A", "I", "L", "A", "B", "L", "E">>)
           /\ e.cls \in {"AIApiKeyException", "AIRateLimitException",
                         "AITimeoutException", "AIServiceException"}
           /\ Includes(e.message, providerName)

C10_Witness ==
  /\ pc = "done" /\ raised.status = Num(401)
  /\ KindOf(result.error) = "AuthError"
  /\ result.error.status = Num(500)
  /\ result.error.code = Str("E_AI_API_KEY_ERROR")

(* The input is one the methods must refuse: an empty or whitespace-only   *)
(* prompt, message content or text, or an empty list.                      *)
EmptyOrBlankInput(o, i) ==
  IF o \in {"generate", "stream"} THEN Blank(i[1].content)
  ELSE IF o = "chat"
    THEN Len(i) = 0 \/ \E j \in 1..Len(i) : Blank(i[j].content)
  ELSE \/ i.isArray /\ (Len(i.arr) = 0 \/ \E j \in 1..Len(i.arr) : Blank(i.arr[j]))
       \/ ~i.isArray /\ Blank(i.str)

(* C11: generate, stream, chat and embed called with an empty or           *)
(* whitespace-only input raise ConfigurationError, created by the method   *)
(* itself and not re-classified, with no remote call, no retry and no      *)
(* backoff wait.                                                           *)
C11_InvalidInputRejected ==
  (pc # "idle" /\ EmptyOrBlankInput(op, input))
    => /\ pc = "done"
       /\ result.st = "thrown"
       /\ KindOf(result.error) = "ConfigurationError"
       /\ result.error.origin = op
       /\ result.error.status = Num(500)
       /\ calls = 0 /\ waits = 0 /\ attempt = 0
       /\ inflight = NoCall /\ raised = NoError /\ lastError = NoError

C11_Witness ==
  /\ pc = "done" /\ op = "embed" /\ input = ArrArg(<<<<" ">>, <<"b">>>>)
  /\ EmptyOrBlankInput(op, input)
  /\ KindOf(result.error) = "ConfigurationError" /\ calls = 0

(* C12: a successful chat returns the input messages, in order and         *)
(* unchanged, followed by exactly one assistant message holding the reply; *)
(* text is the content of that message, and the input list is not          *)
(* modified.                                                               *)
C12_ChatRoundTrip ==
  /\ [](pc = "done" /\ op = "chat" /\ result.st = "returned"
          => LET m == result.value.messages
             IN  /\ Len(input) > 0
                 /\ Len(m) = Len(input) + 1
                 /\ SubSeq(m, 1, Len(input)) = input
                 /\ m[Len(m)] = Msg("assistant", inflight.resp.text)
                 /\ result.value.text = m[Len(m)].content)
  /\ [][pc # "idle" => input' = input]_vars

C12_Witness ==
  /\ pc = "done" /\ op = "chat" /\ result.st = "returned"
  /\ Len(input) = 2 /\ input[1].role = "system"
  /\ Len(result.value.messages) = 3
  /\ result.value.messages[3] = Msg("assistant", <<"h", "i">>)

(* C13: embed on n texts returns n vectors, vector j being the embedding   *)
(* of text j, in whatever order the per-text requests complete; a single   *)
(* string gives exactly one vector.                                        *)
C13_EmbedOrder ==
  (pc = "done" /\ op = "embed" /\ result.st = "returned")
    => LET t == IF input.isArray THEN input.arr ELSE <<input.str>>
           e == result.value.embeddings
       IN  /\ Len(e) = Len(t)
           /\ \A j \in 1..Len(t) : e[j] = Embedding(t[j])
           /\ ~input.isArray => Len(e) = 1

C13_Witness ==
  /\ pc = "done" /\ op = "embed" /\ result.st = "returned"
  /\ providerName = <<"g", "e", "m", "i", "n", "i">>
  /\ input = ArrArg(<<<<"a">>, <<"b">>, <<"c">>>>)
  /\ arrivals = <<3, 1, 2>>
  /\ result.value.embeddings = <<<<1, 1>>, <<1, 2>>, <<1, 3>>>>

(* C14: stream makes one connection attempt per call; a failure to open    *)
(* the stream is classified and raised with no retry and no backoff wait,  *)
(* whatever maxRetries is.                                                 *)
C14_StreamSingleAttempt ==
  op = "stream"
    => /\ calls <= 1 /\ waits = 0 /\ attempt = 0 /\ timer = 0
       /\ pc \notin {"racing", "backoff"}
       /\ (pc = "done" /\ ~EmptyOrBlankInput(op, input)) => calls = 1
       /\ (winner = "remote" /\ inflight.k = "reject")
            => /\ pc = "done" /\ calls = 1
               /\ result = Thrown(mapCommonErrors(providerName, inflight.err))

C14_Witness ==
  /\ op = "stream" /\ pc = "done" /\ maxRetries = MaxRetriesBound
  /\ winner = "remote" /\ inflight.k = "reject"
  /\ inflight.err.status = Num(503)
  /\ calls = 1 /\ waits = 0
  /\ KindOf(result.error) = "ServiceUnavailable"

TypedKinds == RemoteFailureKinds \cup {"ConfigurationError"}

(* C15: every failure the caller receives from generate, chat, embed or    *)
(* stream, and every failure that ends the consumer's iteration of the     *)
(* fragments, is of one of the typed error kinds.                          *)
C15_NoRawError ==
  /\ result.st = "thrown" => KindOf(result.error) \in TypedKinds
  /\ iterError # NoError => KindOf(iterError) \in TypedKinds

(* C16: once the consumer has finished with the fragments, by leaving its  *)
(* loop early or by draining them, the provider stream is closed and the   *)
(* generator completed; a completed generator stays completed and delivers *)
(* nothing more, and every fragment consumes a chunk of the provider       *)
(* stream.                                                                 *)
C16_StreamReleased ==
  /\ [](consumer \in {"finished", "finishedAgain"}
          => ~src.open /\ gen = "completed")
  /\ [][gen = "completed"
          => gen' = "completed" /\ fragments' = fragments /\ src' = src]_vars
  /\ [][fragments' # fragments => Len(src'.rest) < Len(src.rest)]_vars

C16_Witness ==
  /\ consumer = "finished" /\ gen = "completed" /\ ~src.open
  /\ fragments = <<<<"h", "e">>>> /\ src.rest # <<>> /\ iterError = NoError

Registered(n) == \E j \in 1..Len(registrations) : registrations[j].name = n

(* the driver passed to the most recent registerDriver(n, ...) *)
LastRegistered(n) ==
  registrations[CHOOSE j \in 1..Len(registrations) :
                  /\ registrations[j].name = n
                  /\ \A l \in (j + 1)..Len(registrations) :
                       registrations[l].name # n].driver

RECURSIVE FirstRegistrationOrder(_)
FirstRegistrationOrder(log) ==
  IF Len(log) = 0 THEN <<>>
  ELSE LET before == FirstRegistrationOrder(SubSeq(log, 1, Len(log) - 1))
           n == log[Len(log)].name
       IN  IF \E j \in 1..Len(before) : before[j] = n THEN before
           ELSE Append(before, n)

IsDriverNotFound(r, n) ==
  /\ r.st = "thrown"
  /\ r.error.cls = "AIDriverNotFoundException"
  /\ r.error.code = Str("E_AI_DRIVER_NOT_FOUND")
  /\ r.error.status = Num(500)
  /\ Includes(r.error.message, n)

UseMethods == {"use", "useDefault", "default"}

(* C17 as stated: use(name) resolves name itself whenever a name is given, *)
(* and the default only when no argument is given; it returns the driver   *)
(* registered under the resolved name and raises DriverNotFoundError when  *)
(* there is none.                                                          *)
C17_UseByName ==
  (mpc = "done" /\ mcall.method \in UseMethods)
    => LET resolved == IF mcall.given THEN mcall.name ELSE config.default
       IN  IF Registered(resolved)
             THEN mresult = ReturnedDriver(LastRegistered(resolved))
             ELSE IsDriverNotFound(mresult, resolved)

(* C17 amended: use(name) with a non-empty name resolves name; use() and   *)
(* use('') resolve the configured default name. The driver registered      *)
(* under the resolved name is returned, and when there is none             *)
(* DriverNotFoundError naming the resolved name is raised; no other driver *)
(* is ever returned.                                                       *)
C17_UseByNameOrDefault ==
  (mpc = "done" /\ mcall.method \in UseMethods)
    => LET resolved == IF mcall.given /\ mcall.name # <<>> THEN mcall.name
                       ELSE config.default
       IN  IF Registered(resolved)
             THEN mresult = ReturnedDriver(LastRegistered(resolved))
             ELSE IsDriverNotFound(mresult, resolved)

C17_Witness ==
  /\ mpc = "done" /\ mcall = MethodCall("use", Given(<<>>))
  /\ Registered(config.default) /\ ~Registered(<<>>)
  /\ mresult = ReturnedDriver(LastRegistered(config.default))

DefaultConfigured ==
  /\ config.default # <<>>
  /\ \E j \in 1..Len(config.disks) : config.disks[j].name = config.default

MissingKey(j) == config.disks[j].apiKey = <<>>

(* C19: validateConfig returns exactly when the default provider is set    *)
(* and configured and every configured provider has a non-empty API key;   *)
(* otherwise it raises ConfigurationError for the first violation: the     *)
(* default before the keys, and for a missing key the first provider       *)
(* without one, which the error names; it changes nothing in the manager.  *)
C19_ValidateConfig ==
  /\ []((mpc = "done" /\ mcall.method = "validateConfig")
          => /\ mresult.st \in {"returned", "thrown"}
             /\ mresult.st = "returned"
                  <=> /\ DefaultConfigured
                      /\ \A j \in 1..Len(config.disks) : ~MissingKey(j)
             /\ mresult.st = "thrown"
                  => /\ mresult.error.cls = "AiConfigurationError"
                     /\ mresult.error.code = Str("AI_CONFIGURATION_ERROR")
             /\ (mresult.st = "thrown" /\ ~DefaultConfigured)
                  => Includes(mresult.error.message, <<"D", "e", "f", "a", "u", "l", "t", " ", "A", "I", " ", "p", "r", "o", "v", "i", "d", "e", "r">>)
             /\ (mresult.st = "thrown" /\ DefaultConfigured)
                  => \E j \in 1..Len(config.disks) :
                       /\ MissingKey(j)
                       /\ \A l \in 1..(j - 1) : ~MissingKey(l)
                       /\ Includes(mresult.error.message, <<"m", "i", "s", "s", "i", "n", "g", " ", "A", "P", "I", " ", "k", "e", "y">>)
                       /\ Includes(mresult.error.message,
                                   Quoted(config.disks[j].name))
                       /\ \A l \in 1..Len(config.disks) :
                            l # j => ~Includes(mresult.error.message,
                                               config.disks[l].name))
  /\ [][mcall'.method = "validateConfig"
          => /\ config' = config /\ drivers' = drivers
             /\ registrations' = registrations
             /\ results' = results /\ probes' = probes]_vars

C19_Witness ==
  /\ mpc = "done" /\ mcall.method = "validateConfig"
  /\ Len(config.disks) = 2 /\ config.default = config.disks[1].name
  /\ ~MissingKey(1) /\ MissingKey(2)
  /\ mresult.st = "thrown"
  /\ Includes(mresult.error.message, Quoted(config.disks[2].name))

(* C20: testProviders never raises; it returns one boolean entry for each  *)
(* configured provider, in order, false for a provider whose driver cannot *)
(* be created or whose probe throws, and after such a failure the          *)
(* remaining providers are still probed.                                   *)
C20_TestProviders ==
  mcall.method = "testProviders"
    => /\ mresult.st # "thrown"
       /\ Len(results) = Len(probes)
       /\ Len(results) <= Len(config.disks)
       /\ \A j \in 1..Len(results) :
            /\ results[j].name = config.disks[j].name
            /\ results[j].ok \in BOOLEAN
            /\ results[j].ok <=> probes[j] = "true"
       /\ mpc \in {"probing", "done"}
       /\ mpc = "done" => /\ Len(results) = Len(config.disks)
                          /\ mresult = ReturnedMap(results)
       /\ mpc = "probing" => /\ Len(results) < Len(config.disks)
                             /\ ENABLED Probe

C20_Witness ==
  /\ mpc = "done" /\ mcall.method = "testProviders"
  /\ probes = <<"probe threw", "true">>
  /\ mresult.st = "returned"
  /\ Len(mresult.map) = 2
  /\ ~mresult.map[1].ok /\ mresult.map[2].ok

(* C27: backoff waits occur only between attempts: none before the first   *)
(* attempt, one before every later attempt, and none after the attempt     *)
(* that ends the call, whether it succeeded, failed for the last time or   *)
(* failed with status 400, 401 or 403.                                     *)
C27_WaitsBetweenAttempts ==
  /\ [](op \in Ops
          => /\ calls = 0 => waits = 0
             /\ pc = "racing" => waits = calls - 1
             /\ pc = "backoff" => /\ waits = calls
                                  /\ calls <= maxRetries
                                  /\ ENABLED BackoffElapses
             /\ (pc = "done" /\ calls > 0) => waits = calls - 1)
  /\ [][waits' # waits
          => /\ waits' = waits + 1
             /\ pc = "racing" /\ pc' = "backoff"
             /\ calls' = calls]_vars
  /\ [][(calls' # calls /\ calls > 0) => pc = "backoff"]_vars

C27_Witness ==
  /\ pc = "done" /\ op = "chat" /\ result.st = "thrown"
  /\ maxRetries = 2 /\ calls = 3 /\ waits = 2
  /\ winner = "remote" /\ lastError.status = Num(503)

C30_RulePriority ==
  pc = "done"
    => LET m == MessageOf(raised)
           s == IF raised.status # Undefined THEN raised.status ELSE raised.code
           Has(ps) == \E p \in ps : Includes(m, p)
           auth == Has({<<"a", "p", "i", " ", "k", "e", "y">>, <<"A", "P", "I", "_", "K", "E", "Y">>, <<"a", "u", "t", "h", "e", "n", "t", "i", "c", "a", "t", "i", "o", "n">>, <<"4", "0", "1">>})
                     \/ s = Num(401)
           rate == Has({<<"r", "a", "t", "e", " ", "l", "i", "m", "i", "t">>, <<"4", "2", "9">>}) \/ s = Num(429)
           time == Has({<<"t", "i", "m", "e", "o", "u", "t">>, <<"4", "0", "8">>}) \/ s = Num(408)
           svc == Has({<<"5", "0", "3">>, <<"5", "0", "2">>, <<"S", "E", "R", "V", "I", "C", "E", "_", "U", "N", "A", "V", "A", "I", "L", "A", "B", "L", "E">>})
                    \/ s = Num(503) \/ s = Num(502)
       IN  KindOf(result.error) =
             IF auth THEN "AuthError"
             ELSE IF rate THEN "RateLimitError"
             ELSE IF time THEN "TimeoutError"
             ELSE IF svc THEN "ServiceUnavailable"
             ELSE "GenericServiceError"

C30_Witness ==
  /\ pc = "done" /\ raised.status = Num(503) /\ raised.code = Num(401)
  /\ raised.message = <<"r", "e", "q", "u", "e", "s", "t", " ", "t", "i", "m", "e", "o", "u", "t">>
  /\ KindOf(result.error) = "TimeoutError"
(* ======================================================================= *)
(* Claims about the configuration and the provider registration            *)
(* ======================================================================= *)
ManagerBuilt == mpc \in {"idle", "done"}

UseWithoutArgument == mpc = "done" /\ mcall.method = "use" /\ ~mcall.given

(* C21: the default provider names a configured service in every manager   *)
(* that was built: a configuration whose default is absent from the        *)
(* services is rejected when the manager is built, and use() without an    *)
(* argument never fails.                                                   *)
C21_DefaultValidatedEagerly ==
  /\ ManagerBuilt => MapHas(drivers, config.default)
  /\ UseWithoutArgument => mresult.st = "returned"

(* the timeout and maxRetries a driver of service j is claimed to run with *)
ClaimedTimeout(j) ==
  IF config.services[j].timeout = NotSet THEN config.timeout
  ELSE config.services[j].timeout

ClaimedMaxRetries(j) ==
  IF config.services[j].maxRetries = NotSet THEN config.maxRetries
  ELSE config.services[j].maxRetries

(* C22: a driver whose service gives no timeout or maxRetries of its own   *)
(* has the manager-wide values of the configuration, a driver whose        *)
(* service gives its own has those; the timer of a call of the driver is   *)
(* that timeout.                                                           *)
C22_ManagerWideDefaults ==
  /\ ManagerBuilt =>
       \A j \in 1..Len(instances) :
         /\ instances[j].timeout = ClaimedTimeout(j)
         /\ instances[j].maxRetries = ClaimedMaxRetries(j)
  /\ pc = "racing" => timer = ClaimedTimeout(mresult.driver)

(* the part of C22 about a service with values of its own *)
C22_OwnValuesOverride ==
  ManagerBuilt =>
    \A j \in 1..Len(instances) :
      /\ config.services[j].timeout # NotSet =>
           instances[j].timeout = config.services[j].timeout
      /\ config.services[j].maxRetries # NotSet =>
           instances[j].maxRetries = config.services[j].maxRetries

(* default "openai", timeout 30000, maxRetries 3, "openai" and "gemini"    *)
(* registered, and the remote call of the first attempt of                 *)
(* use().generate("hello") has answered "hi" with 5 tokens                 *)
ScenarioAnswered ==
  /\ ManagerBuilt
  /\ config.default = <<"o", "p", "e", "n", "a", "i">>
  /\ config.timeout = 30000 /\ config.maxRetries = 3
  /\ hasDriver(<<"o", "p", "e", "n", "a", "i">>) /\ hasDriver(<<"g", "e", "m", "i", "n", "i">>)
  /\ op = "generate" /\ input = Hello
  /\ attempt = 0 /\ winner = "remote"
  /\ inflight.k = "resolve"
  /\ inflight.resp.text = <<"h", "i">> /\ inflight.resp.total_tokens = 5

(* C24: in that scenario the call returns text "hi", 5 tokens and finish   *)
(* reason "completed", after one remote call and no backoff wait.          *)
C24_ScenarioResponse ==
  ScenarioAnswered =>
    /\ result.st = "returned"
    /\ result.value.text = <<"h", "i">>
    /\ result.value.tokens = 5
    /\ result.value.finishReason = "completed"
    /\ calls = 1 /\ waits = 0

(* ======================================================================= *)
(* Claims about Ai / AiService and the driver cache of AiManager           *)
(* ======================================================================= *)
(* C23: the constructor of a provider's driver runs at most once, whatever *)
(* the interleaving of the use(p) calls, and all calls that succeed for a  *)
(* provider return the same driver object.                                 *)
C23_ConstructedOnce ==
  /\ \A i, j \in 1..Len(registrations) :
       registrations[i].name = registrations[j].name => i = j
  /\ \A c, e \in DOMAIN callers :
       /\ callers[c].res.st = "returned" /\ callers[e].res.st = "returned"
       /\ callers[c].method \in AiMethods \cup {"use"}
       /\ callers[e].method \in AiMethods \cup {"use"}
       /\ callers[c].target = callers[e].target
       => callers[c].res.driver = callers[e].res.driver

(* one caller, between two of its calls *)
Sequential ==
  /\ ai.cls # ""
  /\ callers[2].n = 0
  /\ callers[1].pc = "ready"

(* the provider name a generate call of the caller has handed to use *)
DispatchedTo(c, provider) ==
  /\ callers[c].method \in AiMethods
  /\ callers[c].target = provider
  /\ callers[c].res.st = "returned" =>
       callers[c].res.driver = MapGet(drivers, provider)

(* C25: for one caller, getCurrentProvider() is undefined before any use,  *)
(* is p after a use(p) that succeeded, with generateText / generateChat /  *)
(* generateEmbeddings dispatched to the driver of p, and is undefined      *)
(* after resetProvider(), with these dispatched to the default provider.   *)
C25_SelectionStateMachine ==
  Sequential =>
    /\ callers[1].last.kind = "none" => getCurrentProvider = Omitted
    /\ callers[1].last.kind = "used" =>
         /\ getCurrentProvider = Given(callers[1].last.name)
         /\ callers[1].method \in AiMethods =>
              DispatchedTo(1, callers[1].last.name)
    /\ callers[1].last.kind = "reset" =>
         /\ getCurrentProvider = Omitted
         /\ callers[1].method \in AiMethods =>
              DispatchedTo(1, config.default)

(* the part of C25 that holds: the class Ai *)
C25_OnAi == ai.cls = "Ai" => C25_SelectionStateMachine

(* the provider the caller selected, the default when it selected none *)
SelectionOf(c) ==
  IF callers[c].sel.given THEN callers[c].sel.name ELSE config.default

(* C26: whatever other callers call in between, a generate call of a       *)
(* caller is dispatched to the provider the caller selected by its last    *)
(* use, and to the default provider when it selected none or reset it.     *)
(* Stated for the behaviours in which every use has succeeded.             *)
C26_NoInterference ==
  (\A e \in DOMAIN callers : ~callers[e].useFailed) =>
    \A c \in DOMAIN callers :
      callers[c].method \in AiMethods => callers[c].target = SelectionOf(c)

(* the part of C26 that holds: a caller alone *)
C26_Alone == Sequential => C26_NoInterference

(* C29: after a use(p) that failed because p is not configured the         *)
(* selection is what it was before the call: p is not the current          *)
(* provider and a generate call is dispatched to the provider selected     *)
(* before, or to the default.                                              *)
C29_FailedUseKeepsSelection ==
  Sequential /\ callers[1].last.kind = "failed"
             /\ ~hasProvider(callers[1].last.name) =>
    /\ getCurrentProvider # Given(callers[1].last.name)
    /\ callers[1].method \in AiMethods => DispatchedTo(1, SelectionOf(1))

====
